---- MODULE Spec2Model ----
(***************************************************************************)
(* A model of GeographicLib's exact geodesic engine (GeodesicExact) and    *)
(* of the Math helpers it uses.                                            *)
(*                                                                         *)
(* Real numbers are modelled by a binary floating-point format of reduced  *)
(* width: a sign, a magnitude counted in units of 2^-FracBits and rounded  *)
(* to MantBits significant bits (round to nearest, ties to even), with     *)
(* signed zeros, infinities and NaNs.                                      *)
(***************************************************************************)
EXTENDS Integers, Naturals, Sequences, FiniteSets, TLC

(***************************************************************************)
(* Bounds of the model.                                                    *)
(***************************************************************************)
\* significant bits of the modelled real type
MantBits == 6
\* binary digits after the point of the smallest positive real
FracBits == 11
\* a finite real has a magnitude below 2^(MaxBits) units
MaxBits == 21

(***************************************************************************)
(* The modelled real type.                                                 *)
(***************************************************************************)
Unit == 2 ^ FracBits

Max(x, y) == IF x >= y THEN x ELSE y
Min(x, y) == IF x <= y THEN x ELSE y

RECURSIVE BitLen(_)
BitLen(n) == IF n = 0 THEN 0 ELSE 1 + BitLen(n \div 2)

RECURSIVE TrailZ(_)
TrailZ(n) == IF n = 0 \/ n % 2 = 1 THEN 0 ELSE 1 + TrailZ(n \div 2)

Fin(s, m) == [k |-> "fin", s |-> s, m |-> m]
Inf(s) == [k |-> "inf", s |-> s, m |-> 0]
QNaN(s) == [k |-> "nan", s |-> s, m |-> 0]

\* a whole number, and a number of units, as a real
R(n) == Fin(IF n < 0 THEN -1 ELSE 1, (IF n < 0 THEN -n ELSE n) * Unit)
RU(n) == Fin(IF n < 0 THEN -1 ELSE 1, IF n < 0 THEN -n ELSE n)
NegZero == Fin(-1, 0)

IsNaN(x) == x.k = "nan"
IsFinite(x) == x.k = "fin"
IsZero(x) == x.k = "fin" /\ x.m = 0
SignBit(x) == x.s < 0

\* the magnitude nearest to num/den units that MantBits bits can hold
RoundUnits(num, den) ==
  LET q == num \div den
      quantum == 2 ^ Max(0, BitLen(q) - MantBits)
      d2 == den * quantum
      fl == num \div d2
      rem == num % d2
      up == 2 * rem > d2 \/ (2 * rem = d2 /\ fl % 2 = 1)
  IN  (IF up THEN fl + 1 ELSE fl) * quantum

Overflow(s, m) == IF BitLen(m) > MaxBits THEN Inf(s) ELSE Fin(s, m)

FNeg(x) == [x EXCEPT !.s = -x.s]
FAbs(x) == [x EXCEPT !.s = 1]
CopySign(x, y) == [x EXCEPT !.s = y.s]

\* x + y
FAdd(x, y) ==
  IF IsNaN(x) THEN x
  ELSE IF IsNaN(y) THEN y
  ELSE IF x.k = "inf"
       THEN (IF y.k = "inf" /\ y.s # x.s THEN QNaN(-1) ELSE x)
  ELSE IF y.k = "inf" THEN y
  ELSE LET v == x.s * x.m + y.s * y.m
       IN  IF v = 0
           THEN Fin(IF x.s < 0 /\ y.s < 0 THEN -1 ELSE 1, 0)
           ELSE Overflow(IF v < 0 THEN -1 ELSE 1,
                         RoundUnits(IF v < 0 THEN -v ELSE v, 1))

FSub(x, y) == FAdd(x, FNeg(y))

\* x * y
FMul(x, y) ==
  LET s == x.s * y.s IN
  IF IsNaN(x) THEN x
  ELSE IF IsNaN(y) THEN y
  ELSE IF x.k = "inf" \/ y.k = "inf"
       THEN (IF IsZero(x) \/ IsZero(y) THEN QNaN(-1) ELSE Inf(s))
  ELSE IF x.m = 0 \/ y.m = 0 THEN Fin(s, 0)
  ELSE LET zx == TrailZ(x.m)
           zy == TrailZ(y.m)
           p == (x.m \div 2 ^ zx) * (y.m \div 2 ^ zy)
           e == zx + zy - FracBits
       IN  IF e >= 0
           THEN (IF BitLen(p) + e > MaxBits THEN Inf(s) ELSE Fin(s, p * 2 ^ e))
           ELSE Overflow(s, RoundUnits(p, 2 ^ (-e)))

\* x / y
FDiv(x, y) ==
  LET s == x.s * y.s IN
  IF IsNaN(x) THEN x
  ELSE IF IsNaN(y) THEN y
  ELSE IF x.k = "inf" THEN (IF y.k = "inf" THEN QNaN(-1) ELSE Inf(s))
  ELSE IF y.k = "inf" THEN Fin(s, 0)
  ELSE IF y.m = 0 THEN (IF x.m = 0 THEN QNaN(-1) ELSE Inf(s))
  ELSE IF x.m = 0 THEN Fin(s, 0)
  ELSE LET zx == TrailZ(x.m)
           zy == TrailZ(y.m)
           px == x.m \div 2 ^ zx
           py == y.m \div 2 ^ zy
           e == zx + FracBits - zy
       IN  IF e >= 0
           THEN (IF BitLen(px) + e - BitLen(py) > MaxBits + 1 THEN Inf(s)
                 ELSE Overflow(s, RoundUnits(px * 2 ^ e, py)))
           ELSE Overflow(s, RoundUnits(px, py * 2 ^ (-e)))

\* the comparisons of the reals: every comparison with a NaN is false
Ord(x) == IF x.k = "inf" THEN x.s * 2 ^ (MaxBits + 2) ELSE x.s * x.m
FLt(x, y) == ~IsNaN(x) /\ ~IsNaN(y) /\ Ord(x) < Ord(y)
FLe(x, y) == ~IsNaN(x) /\ ~IsNaN(y) /\ Ord(x) <= Ord(y)
FGt(x, y) == FLt(y, x)
FGe(x, y) == FLe(y, x)
FEq(x, y) == ~IsNaN(x) /\ ~IsNaN(y) /\ Ord(x) = Ord(y)

(***************************************************************************)
(* The C4 coefficient table: its order and its two array lengths.          *)
(***************************************************************************)
Orders == {24, 27, 30}

\* sizeof(coeff) / sizeof(real)
CoeffLen(n) == (n * (n + 1) * (n + 5)) \div 6

\* the length of _cC4x
nC4x(n) == (n * (n + 1)) \div 2

VARIABLES
  nC4,        \* GEOGRAPHICLIB_GEODESICEXACT_ORDER of the build
  pc,         \* where the engine is: "none", "C4coeff", "ready", "C4f", "failed"
  err,        \* the GeographicErr thrown, or "none"
  _a, _f, _b, \* the ellipsoid as the constructor stores it
  _cC4x,      \* the table: slot -> <<l, j>>, the coefficient of eps^j of C4[l]
  ctr,        \* the counters of the running loop: l, j, o, k
  oob,        \* the arrays that a read or a write has left
  c4f,        \* the running C4f: eps, mult
  cW,         \* the elements of c[] that the running C4f has written
  build,      \* GEOGRAPHICLIB_PRECISION of the build and its Math::digits()
  maxit2_,    \* the iteration cap the constructor computes
  npc,        \* the Newton loop: "idle", "loop", "left", "thrown"
  numit,      \* the loop counter
  tripn,      \* the last Newton step was from a small |v|
  tripb,      \* the last bisection closed the bracket
  evals,      \* the calls of Lambda12 made by this GenInverse
  lam,        \* the last call of Lambda12: the gen of its alpha1, its diffp
  gen,        \* the number of times alpha1 was assigned in the loop
  nanIn,      \* the data handed to Lambda12 hold a NaN
  ord,        \* the order of the angles alpha1, alpha1a, alpha1b
  inp,        \* the caller's points and outmask
  oracle,     \* what the two numeric tests of GenInverse give for the points
  plan,       \* the calls of GenInverse the caller still makes
  g,          \* the locals of the running GenInverse
  res         \* call -> what the call returned

engVars == <<nC4, pc, _a, _f, _b, _cC4x, ctr, oob, c4f, cW>>
newtVars == <<npc, numit, tripn, tripb, evals, lam, gen, nanIn, ord>>
giVars == <<inp, oracle, plan, g, res>>
vars == <<engVars, err, build, maxit2_, newtVars, giVars>>

\* what the constructor and the table loops leave alone
notEng == <<build, newtVars, giVars>>
\* what the Newton loop leaves alone
notNewt == <<engVars, build, maxit2_, giVars>>

(***************************************************************************)
(* The builds.  GEOGRAPHICLIB_PRECISION selects the type real: 1 float,    *)
(* 2 double, 3 long double, 4 boost float128, 5 mpfr::mpreal, whose number *)
(* of bits is set at run time.                                             *)
(***************************************************************************)
Precisions == 1 .. 5

\* the precisions mpreal is run with
MpfrDigits == {2}

\* Math::digits()
Digits(p) ==
  CASE p = 1 -> {24}
    [] p = 2 -> {53}
    [] p = 3 -> {64}
    [] p = 4 -> {113}
    [] p = 5 -> MpfrDigits

Builds == {[prec |-> p, digits |-> d] : p \in Precisions, d \in 2 .. 256}
            \cap UNION {{[prec |-> p, digits |-> d] : d \in Digits(p)} :
                        p \in Precisions}

\* GEOGRAPHICLIB_PANIC: throws in the builds with GEOGRAPHICLIB_PRECISION > 3
PanicsLongDouble(b) == b.prec > 2
PanicsNever(b) == FALSE
Panics(b) == b.prec > 3

maxit1_ == 20

\* tol0_(numeric_limits<real>::epsilon())
tol0_ == RU(2 ^ (FracBits - MantBits + 1))

\* Math::pi(), rounded to the precision of real
Pi == Fin(1, RoundUnits(355 * Unit, 113))

\* the last call of Lambda12: the alpha1 it was handed (at), diffp, and what
\* the pass then did (step), with dv > 0 and the test of the rotated
\* alpha1 as that pass computed them
Seen(at, diffp, step, dvpos, legal) ==
  [at |-> at, diffp |-> diffp, step |-> step, dvpos |-> dvpos,
   legal |-> legal]
NoLam == Seen(-1, FALSE, "none", FALSE, FALSE)

\* the Newton loop is not running
NewtonIdle ==
  /\ npc = "idle" /\ numit = 0 /\ tripn = FALSE /\ tripb = FALSE
  /\ evals = 0 /\ lam = NoLam /\ gen = 0 /\ nanIn = FALSE
  /\ ord = [a |-> 1, b |-> -1, ab |-> -1]

\* a sine or a cosine that the model keeps as a symbol with a sign
Sym(n) == [sym |-> n, sgn |-> 1]
Zero == Sym("0")
One == Sym("1")
Alp(s, c) == [sin |-> s, cos |-> c]

\* a real variable of the caller that no call has assigned
Old == [k |-> "old", s |-> 1, m |-> 0]

\* the locals of GenInverse, before it is entered
NoG ==
  [st |-> "idle", call |-> 0, outmask |-> {},
   lat1 |-> R(0), lat2 |-> R(0), lon12 |-> R(0), lon12s |-> R(0),
   lonsign |-> 1, swapp |-> 1, latsign |-> 1,
   meridian |-> FALSE, path |-> "none", nan |-> FALSE,
   a12 |-> Old, s12 |-> Old, alp1 |-> Alp(Zero, Zero), alp2 |-> Alp(Zero, Zero),
   wr |-> {}]

\* no GenInverse is called
GenInverseIdle ==
  /\ inp = [lat1 |-> R(0), lon1 |-> R(0), lat2 |-> R(0), lon2 |-> R(0),
            outmask |-> {}]
  /\ oracle = [merid |-> TRUE, short |-> TRUE]
  /\ plan = <<>>
  /\ g = NoG
  /\ res = [c \in 1 .. 2 |-> NoG]

Unset == <<-1, -1>>
NoCtr == [l |-> 0, j |-> 0, o |-> 0, k |-> 0]

\* the reals offered to the constructor
ARadii == {QNaN(1), Inf(-1), R(-1), NegZero, R(0), RU(1), R(1), R(256), R(768),
           Inf(1)}
Flattenings == {QNaN(1), Inf(-1), R(-2), R(-1), R(0), RU(Unit \div 4),
                RU(Unit - Unit \div 32), R(1), R(2), Inf(1)}

\* the values of eps offered to C4f
Epsilons == {QNaN(1), R(0), RU(Unit \div 8), RU(-(Unit \div 4))}

Init ==
  /\ nC4 \in Orders
  /\ pc = "none"
  /\ err = "none"
  /\ _a = R(0) /\ _f = R(0) /\ _b = R(0)
  /\ _cC4x = [i \in 0 .. nC4x(nC4) - 1 |-> Unset]
  /\ ctr = NoCtr
  /\ oob = {}
  /\ c4f = [eps |-> R(0), mult |-> R(1)]
  /\ cW = {}
  /\ build \in Builds
  /\ maxit2_ = 0
  /\ NewtonIdle
  /\ GenInverseIdle

\* _b(_a * _f1) with _f1(1 - _f)
PolarSemiAxis(a, f) == FMul(a, FSub(R(1), f))

\* !(isfinite(x) && x > 0)
NotPositive(x) == ~(IsFinite(x) /\ FGt(x, R(0)))

\* the two tests of the constructor's body, in their order
PolarFirst(a, b) ==
  IF NotPositive(b) THEN "Polar semi-axis is not positive"
  ELSE IF NotPositive(a) THEN "Equatorial radius is not positive"
  ELSE "none"
ConstructorError(a, b) ==
  IF NotPositive(a) THEN "Equatorial radius is not positive"
  ELSE IF NotPositive(b) THEN "Polar semi-axis is not positive"
  ELSE "none"

\* the constructor up to its call of C4coeff
Construct(a, f) ==
  /\ pc = "none"
  /\ _a' = a /\ _f' = f /\ _b' = PolarSemiAxis(a, f)
  /\ err' = ConstructorError(a, PolarSemiAxis(a, f))
  /\ pc' = IF ConstructorError(a, PolarSemiAxis(a, f)) = "none"
           THEN "C4coeff" ELSE "failed"
  /\ ctr' = [l |-> 0, j |-> nC4 - 1, o |-> 0, k |-> 0]
  /\ maxit2_' = maxit1_ + build.digits + 10
  /\ UNCHANGED <<nC4, _cC4x, oob, c4f, cW>>
  /\ UNCHANGED notEng

\* int m = nC4_ - j - 1
C4coeffOrder(n, j) == n - j - 1

\* o += m + 2
C4coeffAdvanceShort(o, m) == o + m + 1
C4coeffAdvance(o, m) == o + m + 2

\* one pass of the inner loop of C4coeff
C4coeffStep ==
  /\ pc = "C4coeff"
  /\ ctr.l < nC4
  /\ LET m == C4coeffOrder(nC4, ctr.j)
         inCoeff == ctr.o >= 0 /\ ctr.o + m + 1 < CoeffLen(nC4)
         inTable == ctr.k >= 0 /\ ctr.k < nC4x(nC4)
         o2 == C4coeffAdvance(ctr.o, m)
     IN  /\ oob' = oob \cup (IF inCoeff THEN {} ELSE {"coeff"})
                       \cup (IF inTable THEN {} ELSE {"_cC4x"})
         /\ _cC4x' = IF inTable
                     THEN [_cC4x EXCEPT ![ctr.k] = <<ctr.l, ctr.j>>]
                     ELSE _cC4x
         /\ ctr' = IF ctr.j - 1 >= ctr.l
                   THEN [ctr EXCEPT !.j = ctr.j - 1, !.o = o2, !.k = ctr.k + 1]
                   ELSE [l |-> ctr.l + 1, j |-> nC4 - 1, o |-> o2,
                         k |-> ctr.k + 1]
  /\ UNCHANGED <<nC4, pc, err, _a, _f, _b, c4f, cW>>
  /\ UNCHANGED <<maxit2_, notEng>>

\* the post-condition of C4coeff, which ends the constructor
C4coeffEnd ==
  /\ pc = "C4coeff"
  /\ ctr.l >= nC4
  /\ IF ~(ctr.o = CoeffLen(nC4) /\ ctr.k = nC4x(nC4))
     THEN pc' = "failed" /\ err' = "C4 misalignment"
     ELSE pc' = "ready" /\ err' = err
  /\ UNCHANGED <<nC4, _a, _f, _b, _cC4x, ctr, oob, c4f, cW>>
  /\ UNCHANGED <<maxit2_, notEng>>

\* a C4f that fills the table when it is first called
C4fBeginLazy(eps) ==
  /\ pc = "ready"
  /\ pc' = "C4f"
  /\ ctr' = NoCtr
  /\ c4f' = [eps |-> eps, mult |-> R(1)]
  /\ cW' = {}
  /\ _cC4x' = [i \in 0 .. nC4x(nC4) - 1 |-> <<i, 0>>]
  /\ UNCHANGED <<nC4, err, _a, _f, _b, oob>>
  /\ UNCHANGED <<maxit2_, notEng>>

\* C4f(eps, c) is entered (by the area part of GenInverse): mult = 1, o = 0
C4fBegin(eps) ==
  /\ pc = "ready"
  /\ pc' = "C4f"
  /\ ctr' = NoCtr
  /\ c4f' = [eps |-> eps, mult |-> R(1)]
  /\ cW' = {}
  /\ UNCHANGED <<nC4, err, _a, _f, _b, _cC4x, oob>>
  /\ UNCHANGED <<maxit2_, notEng>>

\* int m = nC4_ - l - 1
C4fOrderLow(n, l) == n - l - 2
C4fOrder(n, l) == n - l - 1

\* o += m + 1
C4fAdvanceLong(o, m) == o + m + 2
C4fAdvance(o, m) == o + m + 1

\* the slots polyval(m, p + o, x) reads: m + 1 coefficients
PolyvalReads(m, o) == o .. o + m

\* one pass of the loop of C4f
C4fStep ==
  /\ pc = "C4f"
  /\ ctr.l < nC4
  /\ LET m == C4fOrder(nC4, ctr.l)
         reads == PolyvalReads(m, ctr.o)
     IN  /\ oob' = oob \cup (IF reads \subseteq 0 .. nC4x(nC4) - 1
                              THEN {} ELSE {"_cC4x + o"})
         /\ cW' = cW \cup {ctr.l}
         /\ ctr' = [ctr EXCEPT !.l = ctr.l + 1, !.o = C4fAdvance(ctr.o, m)]
         /\ c4f' = [c4f EXCEPT !.mult = FMul(c4f.mult, c4f.eps)]
  /\ UNCHANGED <<nC4, pc, err, _a, _f, _b, _cC4x>>
  /\ UNCHANGED <<maxit2_, notEng>>

\* the post-condition of C4f
C4fEnd ==
  /\ pc = "C4f"
  /\ ctr.l >= nC4
  /\ IF ~(ctr.o = nC4x(nC4))
     THEN pc' = "failed" /\ err' = "C4 misalignment"
     ELSE pc' = "ready" /\ err' = err
  /\ UNCHANGED <<nC4, _a, _f, _b, _cC4x, ctr, oob, c4f, cW>>
  /\ UNCHANGED <<maxit2_, notEng>>

Next ==
  \/ \E a \in ARadii, f \in Flattenings : Construct(a, f)
  \/ C4coeffStep
  \/ C4coeffEnd
  \/ \E eps \in Epsilons : C4fBegin(eps)
  \/ C4fStep
  \/ C4fEnd

Spec == Init /\ [][Next]_vars

(***************************************************************************)
(* The Newton/bisection loop of GenInverse.  Lambda12 is a function of     *)
(* transcendental quantities; the loop is modelled for every value v and   *)
(* every derivative dv it can hand back.  The angles alpha1, alpha1a and   *)
(* alpha1b enter the tests only through their order (cot decreases on      *)
(* (0, pi)), which is what ord keeps: a, b and ab are the signs of         *)
(* alpha1 - alpha1a, alpha1 - alpha1b and alpha1a - alpha1b.               *)
(***************************************************************************)
Sgn(n) == IF n < 0 THEN -1 ELSE IF n > 0 THEN 1 ELSE 0

\* the sign triples that three angles can have
Orders3 ==
  {[a |-> Sgn(x - y), b |-> Sgn(x - z), ab |-> Sgn(y - z)] :
     x \in 0 .. 2, y \in 0 .. 2, z \in 0 .. 2}

\* the values Lambda12 returns for v
VSet ==
  {QNaN(1), Inf(1), Inf(-1), R(0), RU(1), RU(-1)}
    \cup {FMul(R(k), tol0_) : k \in {1, 8, 16, 32, -1, -8, -16, -32}}

\* the values Lambda12 returns for dlam12
DvSet == {QNaN(1), R(-1), R(0), tol0_, R(1), Inf(1)}

\* real dv: what Lambda12, called with diffp false, leaves in it
Uninit == [k |-> "uninit", s |-> 1, m |-> 0]

\* Lambda12 sets dlam12 only if (diffp)
Dlam12(diffp) == IF diffp THEN DvSet ELSE {Uninit}

\* numit < maxit2_ || GEOGRAPHICLIB_PANIC, as far as the counter goes
LoopTestLate(n, cap) == n <= cap
LoopTest(n, cap) == n < cap

\* tripb || !(fabs(v) >= (tripn ? 8 : 1) * tol0_)
BreakOnV(tb, tn, v) ==
  ~FGe(FAbs(v), FMul(R(IF tn THEN 8 ELSE 1), tol0_))
BreakDirect(tb, tn, v) ==
  tb \/ FLt(FAbs(v), FMul(R(IF tn THEN 8 ELSE 1), tol0_))
Break(tb, tn, v) ==
  tb \/ ~FGe(FAbs(v), FMul(R(IF tn THEN 8 ELSE 1), tol0_))

\* v > 0 && (numit > maxit1_ || calp1/salp1 > calp1b/salp1b)
MoveBAlways(n, v, o) == FGt(v, R(0))
MoveB(n, v, o) == FGt(v, R(0)) /\ (n > maxit1_ \/ o.b < 0)

\* v < 0 && (numit > maxit1_ || calp1/salp1 < calp1a/salp1a)
MoveA(n, v, o) == ~MoveB(n, v, o) /\ FLt(v, R(0)) /\ (n > maxit1_ \/ o.a > 0)

\* the order after the bracket update
Bracketed(n, v, o) ==
  IF MoveB(n, v, o) THEN [a |-> o.a, b |-> 0, ab |-> -o.a]
  ELSE IF MoveA(n, v, o) THEN [a |-> 0, b |-> o.b, ab |-> o.b]
  ELSE o

\* dalp1 = -v/dv
Dalp1(v, dv) == FDiv(FNeg(v), dv)

\* numit < maxit1_ && dv > 0
TryNewtonAnyDv(n, dv) == n < maxit1_
TryNewton(n, dv) == n < maxit1_ /\ FGt(dv, R(0))

\* the orders alpha1 rotated by d can have: it moves with the sign of d
Rotated(o, d) ==
  {q \in Orders3 :
     /\ q.ab = o.ab
     /\ FGt(d, R(0)) => q.a >= o.a /\ q.b >= o.b
     /\ FLt(d, R(0)) => q.a <= o.a /\ q.b <= o.b
     /\ IsZero(d) => q = o}

\* the orders the normalised midpoint of the bracket can have: between the
\* ends, or rounded onto one of them
Midpoints(o) ==
  {q \in Orders3 :
     /\ q.ab = o.ab
     /\ q.a \in {0, -o.ab} /\ q.b \in {0, o.ab}
     /\ o.ab # 0 => ~(q.a = 0 /\ q.b = 0)}

\* what nsalp1 > 0 can be, with nsalp1 = salp1 * cos(dalp1) + calp1 *
\* sin(dalp1) and salp1 > 0: false if dalp1 is not finite, true if it is zero
Nsalp1(d) ==
  IF ~IsFinite(d) THEN {FALSE} ELSE IF IsZero(d) THEN {TRUE} ELSE BOOLEAN

\* what the two comparisons with tolb_ can give for the midpoint q: true
\* if it is one of the ends
Tolb(q) == IF q.a = 0 \/ q.b = 0 THEN {TRUE} ELSE BOOLEAN

\* the rest of a pass that does not break: the bracket, then the Newton
\* step or the bisection
Step(v, dv) ==
  LET o == Bracketed(numit, v, ord)
      d == Dalp1(v, dv)
  IN  /\ numit' = numit + 1
      /\ gen' = gen + 1
      /\ \E pos \in IF TryNewton(numit, dv) THEN Nsalp1(d) ELSE {FALSE} :
           IF TryNewton(numit, dv) /\ pos /\ FLt(FAbs(d), Pi)
           THEN /\ \E q \in Rotated(o, d) : ord' = q
                /\ tripn' = FLe(FAbs(v), FMul(R(16), tol0_))
                /\ tripb' = tripb
                /\ lam' = Seen(gen, numit < maxit1_, "newton",
                               FGt(dv, R(0)), pos /\ FLt(FAbs(d), Pi))
           ELSE \E q \in Midpoints(o) : \E near \in Tolb(q) :
                  /\ ord' = q
                  /\ tripn' = FALSE
                  /\ tripb' = near
                  /\ lam' = Seen(gen, numit < maxit1_, "midpoint",
                                 FGt(dv, R(0)),
                                 pos /\ FLt(FAbs(d), Pi))

\* one pass of the body of the loop, with the v and the dv that Lambda12
\* returns
NewtonPass(v, dv) ==
  /\ npc = "loop"
  /\ LoopTest(numit, maxit2_)
  /\ nanIn => IsNaN(v)
  /\ evals' = evals + 1
  /\ IF Break(tripb, tripn, v)
     THEN /\ npc' = "left"
          /\ lam' = Seen(gen, numit < maxit1_, "break", FALSE, FALSE)
          /\ UNCHANGED <<numit, tripn, tripb, gen, ord>>
     ELSE /\ npc' = npc
          /\ Step(v, dv)
  /\ UNCHANGED <<err, nanIn>>

NewtonIter(v, dv) == NewtonPass(v, dv) /\ UNCHANGED notNewt

\* the loop test fails: the loop is left, or GEOGRAPHICLIB_PANIC throws
NewtonExhaust ==
  /\ npc = "loop"
  /\ ~LoopTest(numit, maxit2_)
  /\ IF Panics(build)
     THEN npc' = "thrown" /\ err' = "Convergence failure"
     ELSE npc' = "left" /\ err' = err
  /\ UNCHANGED <<numit, tripn, tripb, evals, lam, gen, nanIn, ord, notNewt>>

\* the orders alpha1 can have when the loop is entered: alpha1a < alpha1b
StartOrders == {q \in Orders3 : q.ab = -1}

\* GenInverse has come to the loop: numit = 0, the bracket is
\* (tiny_, 1) .. (tiny_, -1), alpha1 is what InverseStart left
InitNewton ==
  /\ nC4 = 24 /\ pc = "ready" /\ err = "none"
  /\ _a = R(1) /\ _f = R(0) /\ _b = R(1)
  /\ _cC4x = [i \in 0 .. nC4x(nC4) - 1 |-> <<0, 0>>]
  /\ ctr = NoCtr /\ oob = {} /\ c4f = [eps |-> R(0), mult |-> R(1)]
  /\ cW = {}
  /\ build \in Builds
  /\ maxit2_ = maxit1_ + build.digits + 10
  /\ npc = "loop" /\ numit = 0 /\ tripn = FALSE /\ tripb = FALSE
  /\ evals = 0 /\ lam = NoLam /\ gen = 0
  /\ nanIn \in BOOLEAN
  /\ ord \in StartOrders
  /\ GenInverseIdle

NextNewton ==
  \/ \E v \in VSet, dv \in Dlam12(numit < maxit1_) : NewtonIter(v, dv)
  \/ NewtonExhaust

SpecNewton == InitNewton /\ [][NextNewton]_vars

(***************************************************************************)
(* The loop again, with the bracket watched: for each end of the bracket,  *)
(* where it comes from (the initial (tiny_, 1) or (tiny_, -1), or an       *)
(* alpha1 Lambda12 was evaluated at, with the sign of the v it returned),  *)
(* the end the last pass replaced, and the class of the sine of alpha1 and *)
(* of the two ends: positive, NaN, or not known to be either.              *)
(***************************************************************************)
VSign(v) ==
  IF FGt(v, R(0)) THEN "pos" ELSE IF FLt(v, R(0)) THEN "neg" ELSE "other"

\* the end of the bracket a pass with this v replaces
Moved(n, v, o) ==
  IF MoveB(n, v, o) THEN "b" ELSE IF MoveA(n, v, o) THEN "a" ELSE "none"

\* Sanity check on starting guess: if (!(salp1 <= 0)) Math::norm(salp1,
\* calp1); else { salp1 = 1; calp1 = 0; }
StartSineStrict(s) == IF s = "neg" THEN "pos" ELSE s
StartSine(s) == IF s \in {"zero", "neg"} THEN "pos" ELSE s

\* the sine of the midpoint: (salp1a + salp1b)/2, then Math::norm
MidSine(sa, sb) ==
  IF sa = "pos" /\ sb = "pos" THEN "pos"
  ELSE IF sa = "nan" \/ sb = "nan" THEN "nan"
  ELSE "any"

\* real salp1a = tiny_, calp1a = 1, salp1b = tiny_, calp1b = -1;
InitialEnd == [from |-> "init", v |-> "none", sine |-> "pos"]

Watch(w, v) ==
  IF npc' # "loop" THEN [w EXCEPT !.moved = "none"]
  ELSE LET mv == Moved(numit, v, ord)
           end == [from |-> "eval", v |-> VSign(v), sine |-> w.sine]
           a == IF mv = "a" THEN end ELSE w.a
           b == IF mv = "b" THEN end ELSE w.b
       IN  [moved |-> mv, a |-> a, b |-> b,
            sine |-> IF lam'.step = "newton"
                     THEN IF lam'.legal THEN "pos" ELSE "any"
                     ELSE MidSine(a.sine, b.sine)]

BracketPass(v, dv) ==
  /\ NewtonPass(v, dv)
  /\ res' = <<Watch(res[1], v)>>
  /\ UNCHANGED <<engVars, build, maxit2_, inp, oracle, plan, g>>

\* the classes of the salp1 that InverseStart computes
StartSines == {"pos", "zero", "neg", "nan"}

InitBracket ==
  /\ nC4 = 24 /\ pc = "ready" /\ err = "none"
  /\ _a = R(1) /\ _f = R(0) /\ _b = R(1)
  /\ _cC4x = [i \in 0 .. nC4x(nC4) - 1 |-> <<0, 0>>]
  /\ ctr = NoCtr /\ oob = {} /\ c4f = [eps |-> R(0), mult |-> R(1)]
  /\ cW = {}
  /\ build \in {b \in Builds : b.prec \in {1, 5}}
  /\ maxit2_ = maxit1_ + build.digits + 10
  /\ npc = "loop" /\ numit = 0 /\ tripn = FALSE /\ tripb = FALSE
  /\ evals = 0 /\ lam = NoLam /\ gen = 0
  /\ nanIn \in BOOLEAN
  /\ ord \in StartOrders
  /\ inp = [lat1 |-> R(0), lon1 |-> R(0), lat2 |-> R(0), lon2 |-> R(0),
            outmask |-> {}]
  /\ oracle = [merid |-> TRUE, short |-> TRUE]
  /\ plan = <<>>
  /\ g = NoG
  /\ \E s \in StartSines :
       /\ s = "nan" => nanIn
       /\ res = <<[moved |-> "none", a |-> InitialEnd, b |-> InitialEnd,
                   sine |-> StartSine(s)]>>

\* the v and the dlam12 the watched loop is run with
BracketVs ==
  {QNaN(1), Inf(1), R(0)} \cup {FMul(R(k), tol0_) : k \in {8, 32, -8, -32}}
BracketDvs(diffp) == Dlam12(diffp) \ {R(0), Inf(1)}

NextBracket ==
  \/ \E v \in BracketVs, dv \in BracketDvs(numit < maxit1_) :
       BracketPass(v, dv)
  \/ NewtonExhaust

SpecBracket == InitBracket /\ [][NextBracket]_vars

(***************************************************************************)
(* The angle helpers of Math.                                              *)
(***************************************************************************)
\* std::remainder(x, y) for a finite y > 0: exact, the quotient to nearest,
\* ties to even; a zero result has the sign of x
Remainder(x, y) ==
  IF IsNaN(x) THEN x
  ELSE IF x.k = "inf" THEN QNaN(-1)
  ELSE LET q == x.m \div y.m
           r == x.m % y.m
           v == IF 2 * r > y.m \/ (2 * r = y.m /\ q % 2 = 1)
                THEN r - y.m ELSE r
       IN  IF v = 0 THEN Fin(x.s, 0)
           ELSE Fin(IF x.s * v < 0 THEN -1 ELSE 1, IF v < 0 THEN -v ELSE v)

\* Math::sum(u, v, t), from up = s - v on: up -= u, vpp = s - up, vpp -= v,
\* t = s != 0 ? T(0) - (up + vpp) : s
SumErrorNone(u, v, s, up) == IF ~FEq(s, R(0)) THEN R(0) ELSE s
SumError(u, v, s, up) ==
  IF ~FEq(s, R(0))
  THEN FSub(R(0), FAdd(FSub(up, u), FSub(FSub(s, up), v)))
  ELSE s
SumOf(u, v, s) == [s |-> s, t |-> SumError(u, v, s, FSub(s, v))]

\* Math::sum(u, v, t): s = round(u + v) and the error t
Sum(u, v) == SumOf(u, v, FAdd(u, v))

\* Math::AngDiff(x, y, e), from the second sum on: the sign of d is fixed
\* if d is -180, 0 or 180
AngDiffSign(x, y, d, e) ==
  [d |-> IF FEq(d, R(0)) \/ FEq(FAbs(d), R(180))
         THEN CopySign(d, IF FEq(e, R(0)) THEN FSub(y, x) ELSE FNeg(e))
         ELSE d,
   e |-> e]
AngDiffOf(x, y, s2) == AngDiffSign(x, y, s2.s, s2.t)
AngDiffSum(x, y, s1) == AngDiffOf(x, y, Sum(Remainder(s1.s, R(360)), s1.t))

\* Math::AngDiff(x, y, e): d and e
AngDiff(x, y) ==
  AngDiffSum(x, y, Sum(Remainder(FNeg(x), R(360)), Remainder(y, R(360))))

\* Math::AngRound(x), from w = z - y on
AngRoundOf(x, z, w) ==
  CopySign(IF FGt(w, R(0)) THEN FSub(z, w) ELSE FAbs(x), x)

\* Math::AngRound(x)
AngRound(x) == AngRoundOf(x, RU(Unit \div 16), FSub(RU(Unit \div 16), FAbs(x)))

\* Math::LatFix(x)
LatFix(x) == IF FGt(FAbs(x), R(90)) THEN QNaN(1) ELSE x

(***************************************************************************)
(* The output mask.  A mask of the caller is a set of bits; every named    *)
(* mask holds one output bit, which has its name here, and capability      *)
(* bits, which lie outside OUT_MASK.                                       *)
(***************************************************************************)
OutputNames ==
  {"LATITUDE", "LONGITUDE", "AZIMUTH", "DISTANCE", "DISTANCE_IN",
   "REDUCEDLENGTH", "GEODESICSCALE", "AREA"}

OutputBit(n) == [of |-> n, cap |-> FALSE]
Capability(n) == [of |-> n, cap |-> TRUE]
Mask(n) == {OutputBit(n), Capability(n)}
DISTANCE == Mask("DISTANCE")
AZIMUTH == Mask("AZIMUTH")
REDUCEDLENGTH == Mask("REDUCEDLENGTH")
GEODESICSCALE == Mask("GEODESICSCALE")
AREA == Mask("AREA")
OUT_ALL == {OutputBit(n) : n \in OutputNames}
OUT_MASK == OUT_ALL \cup {OutputBit("LONG_UNROLL")}

\* outmask & m
Has(outmask, m) == outmask \cap m # {}

(***************************************************************************)
(* GenInverse.  The sines and cosines of the azimuths, and the lengths,    *)
(* come from transcendental functions of the canonical data; the model     *)
(* keeps them as symbols and follows what the code does with them: which   *)
(* it assigns, swaps and multiplies by the three signs.  An arithmetic     *)
(* operation or a library function with a NaN operand gives a NaN, with    *)
(* the exceptions the code relies on: fmax(tiny_, NaN) = tiny_ and         *)
(* fmax(0, NaN) = 0.                                                       *)
(***************************************************************************)
\* the arguments of call c: the caller's points, and the same points in the
\* other order
Args(c) ==
  IF c = 1 THEN inp
  ELSE [inp EXCEPT !.lat1 = inp.lat2, !.lon1 = inp.lon2,
                   !.lat2 = inp.lat1, !.lon2 = inp.lon1]

\* int lonsign = signbit(lon12) ? -1 : 1
LonSignEast(lon12) == 1
LonSign(lon12) == IF SignBit(lon12) THEN -1 ELSE 1

\* int swapp = fabs(lat1) < fabs(lat2) || isnan(lat2) ? -1 : 1
SwappNaNOnly(lat1, lat2) == IF IsNaN(lat2) THEN -1 ELSE 1
Swapp(lat1, lat2) ==
  IF FLt(FAbs(lat1), FAbs(lat2)) \/ IsNaN(lat2) THEN -1 ELSE 1

\* int latsign = signbit(lat1) ? 1 : -1
LatSign(lat1) == IF SignBit(lat1) THEN 1 ELSE -1

\* the longitudes: lon12 = lonsign * AngRound(lon12) and
\* lon12s = AngRound((180 - lon12) - lonsign * lon12s)
CanonicalLon12s(lonsign, lon12, e) ==
  [lonsign |-> lonsign, lon12 |-> lon12,
   lon12s |-> AngRound(FSub(FSub(R(180), lon12), FMul(R(lonsign), e)))]
CanonicalLon12(lonsign, ad) ==
  CanonicalLon12s(lonsign, FMul(R(lonsign), AngRound(ad.d)), ad.e)
CanonicalLon(ad) == CanonicalLon12(LonSign(ad.d), ad)

\* the latitudes: swapped if swapp < 0, and then lat1 *= latsign,
\* lat2 *= latsign
CanonicalLatSign(swapp, latsign, lat1, lat2) ==
  [swapp |-> swapp, latsign |-> latsign,
   lat1 |-> FMul(R(latsign), lat1), lat2 |-> FMul(R(latsign), lat2)]
CanonicalSwap(swapp, lat1, lat2) ==
  CanonicalLatSign(swapp, LatSign(lat1), lat1, lat2)
CanonicalLat(lat1, lat2) ==
  IF Swapp(lat1, lat2) < 0 THEN CanonicalSwap(-1, lat2, lat1)
  ELSE CanonicalSwap(1, lat1, lat2)

\* the canonical form: if (swapp < 0) lonsign *= -1
CanonicalOf(lon, lat) ==
  [lon12 |-> lon.lon12, lon12s |-> lon.lon12s,
   lonsign |-> IF lat.swapp < 0 THEN -lon.lonsign ELSE lon.lonsign,
   swapp |-> lat.swapp, latsign |-> lat.latsign,
   lat1 |-> lat.lat1, lat2 |-> lat.lat2]
Canonical(lat1, lon1, lat2, lon2) ==
  CanonicalOf(CanonicalLon(AngDiff(lon1, lon2)),
              CanonicalLat(AngRound(LatFix(lat1)), AngRound(LatFix(lat2))))

\* the locals after the canonicalisation
Entered(c, outmask, k) ==
  [NoG EXCEPT !.st = "canon", !.call = c, !.outmask = outmask,
              !.lat1 = k.lat1, !.lat2 = k.lat2,
              !.lon12 = k.lon12, !.lon12s = k.lon12s,
              !.lonsign = k.lonsign, !.swapp = k.swapp,
              !.latsign = k.latsign]
EnteredWith(c, a) ==
  Entered(c, a.outmask \cap OUT_MASK,
          Canonical(a.lat1, a.lon1, a.lat2, a.lon2))

\* the azimuth form masks outmask and calls the sine/cosine form, which
\* brings the points to the canonical form
GCanon(c) ==
  /\ g.st = "idle"
  /\ plan # <<>>
  /\ c = Head(plan)
  /\ g' = EnteredWith(c, Args(c))
  /\ UNCHANGED <<engVars, err, build, maxit2_, newtVars, inp, oracle, plan,
                 res>>

\* slam12 == 0, with slam12 the sine of lon12s if lon12 > 90 and of lon12
\* otherwise: sincosd gives a zero sine for a zero angle only
SlamZero(lon12, lon12s) ==
  IF FGt(lon12, R(90)) THEN IsZero(lon12s) ELSE IsZero(lon12)

\* bool meridian = lat1 == -90 || slam12 == 0
MeridianCandidatePole(lat1, lon12, lon12s) == FEq(lat1, R(-90))
MeridianCandidate(lat1, lon12, lon12s) ==
  FEq(lat1, R(-90)) \/ SlamZero(lon12, lon12s)

\* sig12 < 1 || m12x >= 0: false if the data hold a NaN, and else a numeric
\* fact of the canonical data
MeridianAccepted(nan) == ~nan /\ oracle.merid

\* sbet1 == 0 && (_f <= 0 || lon12s >= _f * 180): sbet1 is zero for a zero
\* lat1 only
EquatorialTestLat(lat1, lon12s) == IsZero(lat1)
EquatorialTest(lat1, lon12s) ==
  IsZero(lat1) /\ (FLe(_f, R(0)) \/ FGe(lon12s, FMul(_f, R(180))))

\* sig12 >= 0 for the sig12 InverseStart returns: false if the data hold a
\* NaN (shortline is then false), and else a numeric fact of the
\* canonical data
ShortLine(nan) == ~nan /\ oracle.short

\* sig12 / Math::degree() for a sig12 = atan2(y, x) with y >= 0: a real of
\* [0, 180]
Arc == [k |-> "arc", s |-> 1, m |-> 0]

\* a length computed from data without a NaN
Length == [k |-> "len", s |-> 1, m |-> 0]

\* a12 = lon12 / _f1 with _f1 = 1 - _f
EquatorialArc(lon12) == FDiv(lon12, FSub(R(1), _f))

\* Math::degree() = pi() / hd
Degree == FDiv(Pi, R(180))

\* s12x = _a * lam12 with lam12 = lon12 * Math::degree()
EquatorialLengthPolar(lon12) == FMul(_b, FMul(lon12, Degree))
EquatorialLength(lon12) == FMul(_a, FMul(lon12, Degree))

\* what Lengths assigns to M12 and M21
LengthsWritesAlways(outmask) == {"M12", "M21"}
LengthsWrites(outmask) ==
  IF Has(outmask \cap OUT_ALL, GEODESICSCALE) THEN {"M12", "M21"} ELSE {}

\* if (outmask & GEODESICSCALE) M12 = M21 = ...
ScaleWrites(outmask) ==
  IF Has(outmask, GEODESICSCALE) THEN {"M12", "M21"} ELSE {}

\* the body of GenInverse from the canonical form up to the Newton loop:
\* the meridional, the equatorial and the short-line solutions
GSolve ==
  /\ g.st = "canon"
  /\ LET nan == IsNaN(g.lat1) \/ IsNaN(g.lat2) \/ IsNaN(g.lon12)
         slam0 == SlamZero(g.lon12, g.lon12s)
         cand == MeridianCandidate(g.lat1, g.lon12, g.lon12s)
         mer == cand /\ MeridianAccepted(nan)
         equ == ~mer /\ EquatorialTest(g.lat1, g.lon12s)
         sho == ~mer /\ ~equ /\ ShortLine(nan)
         newt == ~mer /\ ~equ /\ ~sho
         wr1 == IF cand THEN LengthsWrites(g.outmask \cup REDUCEDLENGTH)
                ELSE {}
         wr2 == IF equ \/ sho THEN ScaleWrites(g.outmask) ELSE {}
     IN  /\ g' = [g EXCEPT
                    !.st = IF newt THEN "loop" ELSE "solved",
                    !.meridian = mer,
                    !.path = IF mer THEN "meridional"
                             ELSE IF equ THEN "equatorial"
                             ELSE IF sho THEN "short" ELSE "newton",
                    !.nan = nan,
                    !.a12 = IF equ THEN EquatorialArc(g.lon12) ELSE Arc,
                    !.s12 = IF equ THEN EquatorialLength(g.lon12)
                            ELSE IF nan THEN QNaN(1) ELSE Length,
                    !.alp1 = IF mer
                             THEN Alp(IF slam0 THEN Zero ELSE Sym("slam12"),
                                      IF ~slam0 THEN Sym("clam12")
                                      ELSE IF FGt(g.lon12, R(90))
                                      THEN [One EXCEPT !.sgn = -1] ELSE One)
                             ELSE IF equ THEN Alp(One, Zero)
                             ELSE Alp(Sym("salp1"), Sym("calp1")),
                    !.alp2 = IF mer THEN Alp(Zero, One)
                             ELSE IF equ THEN Alp(One, Zero)
                             ELSE Alp(Sym("salp2"), Sym("calp2")),
                    !.wr = wr1 \cup wr2]
         /\ IF newt
            THEN /\ npc' = "loop" /\ numit' = 0
                 /\ tripn' = FALSE /\ tripb' = FALSE
                 /\ evals' = 0 /\ lam' = NoLam /\ gen' = 0
                 /\ nanIn' = nan
                 /\ ord' \in StartOrders
            ELSE UNCHANGED newtVars
  /\ UNCHANGED <<engVars, err, build, maxit2_, inp, oracle, plan, res>>

\* the loop is left: Lengths, a12 = sig12 / Math::degree(); the block of
\* the loop ends, and with it numit, tripn, tripb and the bracket
GLengths ==
  /\ g.st = "loop"
  /\ npc = "left"
  /\ g' = [g EXCEPT !.st = "solved",
                    !.a12 = IF g.nan THEN QNaN(1) ELSE Arc,
                    !.wr = g.wr \cup LengthsWrites(g.outmask)]
  /\ npc' = "idle" /\ numit' = 0 /\ tripn' = FALSE /\ tripb' = FALSE
  /\ lam' = NoLam /\ gen' = 0 /\ ord' = [a |-> 1, b |-> -1, ab |-> -1]
  /\ UNCHANGED <<engVars, err, build, maxit2_, evals, nanIn, inp, oracle,
                 plan, res>>

\* a symbol times an int that is -1 or 1
Times(x, k) == [x EXCEPT !.sgn = x.sgn * k]

\* salp1 *= swapp * lonsign
SineFactorNoSwap(swapp, lonsign) == lonsign
SineFactor(swapp, lonsign) == swapp * lonsign

\* calp1 *= swapp * latsign
CosineFactor(swapp, latsign) == swapp * latsign

\* the outputs of the sine/cosine form, its return, and the azimuths of
\* the azimuth form
GOutputs ==
  /\ g.st = "solved"
  /\ LET a1 == IF g.swapp < 0 THEN g.alp2 ELSE g.alp1
         a2 == IF g.swapp < 0 THEN g.alp1 ELSE g.alp2
         fs == SineFactor(g.swapp, g.lonsign)
         fc == CosineFactor(g.swapp, g.latsign)
         ret == [g EXCEPT
                   !.st = "returned",
                   !.s12 = IF Has(g.outmask, DISTANCE) THEN g.s12 ELSE Old,
                   !.alp1 = Alp(Times(a1.sin, fs), Times(a1.cos, fc)),
                   !.alp2 = Alp(Times(a2.sin, fs), Times(a2.cos, fc)),
                   !.wr = g.wr
                     \cup (IF Has(g.outmask, DISTANCE) THEN {"s12"} ELSE {})
                     \cup (IF Has(g.outmask, REDUCEDLENGTH) THEN {"m12"}
                           ELSE {})
                     \cup (IF Has(g.outmask, AREA) THEN {"S12"} ELSE {})
                     \cup (IF Has(g.outmask, AZIMUTH) THEN {"azi1", "azi2"}
                           ELSE {})]
     IN  res' = [res EXCEPT ![g.call] = ret]
  /\ g' = NoG
  /\ plan' = Tail(plan)
  /\ UNCHANGED <<engVars, err, build, maxit2_, newtVars, inp, oracle>>

\* the engine of the calls: a = 1, the table filled
EngineReady(f) ==
  /\ nC4 = 24 /\ pc = "ready" /\ err = "none"
  /\ _a = R(1) /\ _f = f /\ _b = PolarSemiAxis(R(1), f)
  /\ _cC4x = [i \in 0 .. nC4x(nC4) - 1 |-> <<0, 0>>]
  /\ ctr = NoCtr /\ oob = {} /\ c4f = [eps |-> R(0), mult |-> R(1)]
  /\ cW = {}

\* the flattenings, the latitudes and the longitudes of the calls
CanonFlattenings == {R(0), RU((3 * Unit) \div 4), FNeg(RU(Unit \div 2))}
CanonLats1 == {R(-90), R(-30), NegZero, R(0), R(30)}
CanonLats2 == {R(-30), R(0), RU(1), R(10), R(30), R(90), QNaN(1)}
CanonLons1 == {R(0), R(176)}
CanonLons2 ==
  {R(0), NegZero, R(46), R(68), R(180), R(-176), R(360), Inf(1)}

\* what the two numeric tests can give together
Oracles ==
  {[merid |-> TRUE, short |-> TRUE], [merid |-> FALSE, short |-> TRUE],
   [merid |-> FALSE, short |-> FALSE]}

\* the caller asks for every output
AllOutputs == DISTANCE \cup AZIMUTH \cup REDUCEDLENGTH \cup GEODESICSCALE
                \cup AREA

\* a caller solves the inverse problem for two points, and then for the
\* same points in the other order
InitCanon ==
  /\ \E f \in CanonFlattenings : EngineReady(f)
  /\ build \in {b \in Builds : b.prec = 2}
  /\ maxit2_ = maxit1_ + build.digits + 10
  /\ NewtonIdle
  /\ inp \in [lat1 : CanonLats1, lon1 : CanonLons1, lat2 : CanonLats2,
              lon2 : CanonLons2, outmask : {AllOutputs}]
  /\ oracle \in Oracles
  /\ plan = <<1, 2>>
  /\ g = NoG
  /\ res = [c \in 1 .. 2 |-> NoG]

NextCanon ==
  \/ \E c \in 1 .. 2 : GCanon(c)
  \/ GSolve
  \/ GOutputs

SpecCanon == InitCanon /\ [][NextCanon]_vars

\* the points and the masks of the single calls
InversePoints ==
  {[lat1 |-> QNaN(1), lon1 |-> R(0), lat2 |-> R(10), lon2 |-> R(46)],
   [lat1 |-> R(10), lon1 |-> R(0), lat2 |-> QNaN(1), lon2 |-> R(0)],
   [lat1 |-> R(91), lon1 |-> R(0), lat2 |-> R(-30), lon2 |-> R(46)],
   [lat1 |-> R(0), lon1 |-> R(0), lat2 |-> R(-91), lon2 |-> R(46)],
   [lat1 |-> QNaN(1), lon1 |-> R(0), lat2 |-> QNaN(1), lon2 |-> R(0)],
   [lat1 |-> R(-30), lon1 |-> R(0), lat2 |-> R(10), lon2 |-> R(0)],
   [lat1 |-> R(-30), lon1 |-> R(0), lat2 |-> R(10), lon2 |-> R(46)],
   [lat1 |-> R(0), lon1 |-> R(0), lat2 |-> R(0), lon2 |-> R(46)]}
InverseMasks ==
  {{}, AllOutputs \cup {OutputBit("LONG_UNROLL")}, DISTANCE \cup GEODESICSCALE,
   AZIMUTH \cup REDUCEDLENGTH \cup AREA}

\* a caller solves one inverse problem: in a build with float, and for the
\* points with an invalid latitude also in a build with mpreal
InitInverse ==
  /\ EngineReady(RU(Unit \div 32))
  /\ build \in {b \in Builds : b.prec \in {1, 5}}
  /\ maxit2_ = maxit1_ + build.digits + 10
  /\ NewtonIdle
  /\ \E p \in InversePoints, um \in InverseMasks :
       /\ Panics(build) => IsNaN(LatFix(p.lat1)) \/ IsNaN(LatFix(p.lat2))
       /\ inp = [lat1 |-> p.lat1, lon1 |-> p.lon1, lat2 |-> p.lat2,
                 lon2 |-> p.lon2, outmask |-> um]
  /\ oracle \in Oracles
  /\ plan = <<1>>
  /\ g = NoG
  /\ res = [c \in 1 .. 2 |-> NoG]

NextInverse ==
  \/ \E c \in 1 .. 2 : GCanon(c)
  \/ GSolve
  \/ \E v \in VSet, dv \in Dlam12(numit < maxit1_) : NewtonIter(v, dv)
  \/ NewtonExhaust
  \/ GLengths
  \/ GOutputs

SpecInverse == InitInverse /\ [][NextInverse]_vars

(***************************************************************************)
(* Math::AngNormalize and the calls of the angle functions by themselves.  *)
(***************************************************************************)
\* the values remainder(x, 360) can have in a build: boost-quadmath
\* (GEOGRAPHICLIB_PRECISION == 4) does not set the sign of a zero result
\* correctly, every other build returns the remainder of the C library
RemainderIn(b, x) ==
  IF b.prec = 4 /\ IsZero(Remainder(x, R(360)))
  THEN {R(0), NegZero}
  ELSE {Remainder(x, R(360))}

\* #if GEOGRAPHICLIB_PRECISION == 4: if (y == 0) y = copysign(y, x)
FixZero(b, x, y) == IF b.prec = 4 /\ FEq(y, R(0)) THEN CopySign(y, x) ELSE y

\* return fabs(y) == T(hd) ? copysign(T(hd), x) : y
AngNormalizeKeep(x, y) == y
AngNormalizeOf(x, y) ==
  IF FEq(FAbs(y), R(180)) THEN CopySign(R(180), x) ELSE y

\* Math::AngNormalize(x) in build b, for a remainder y of x
AngNormalize(b, x, y) == AngNormalizeOf(x, FixZero(b, x, y))

Signed(S) == S \cup {FNeg(x) : x \in S}

\* the angles handed to AngDiff: values of the type real
AngDiffArgs ==
  Signed({R(0), RU(1), RU(3), RU(Unit \div 2), R(1), RU(Unit + Unit \div 32),
          R(3), R(30), R(46), R(63), R(90), R(136), R(176), R(180), R(184),
          R(256), R(360), R(512), R(720), R(1440)})

\* the angles handed to AngNormalize, which rounds nothing: angles of any
\* real type that holds them
NormalizeArgs ==
  Signed({R(0), RU(1), R(1), R(90), R(179), R(180), R(181), R(359), R(360),
          R(361), R(539), R(540), R(541), R(720), R(900), R(1080)})

\* a caller holds two angles x and y
InitAngles ==
  /\ EngineReady(R(0))
  /\ build \in {b \in Builds : b.prec \in {2, 4}}
  /\ maxit2_ = maxit1_ + build.digits + 10
  /\ NewtonIdle
  /\ inp \in [x : AngDiffArgs \cup NormalizeArgs, y : AngDiffArgs]
  /\ oracle = [merid |-> TRUE, short |-> TRUE]
  /\ plan = <<>>
  /\ g = NoG
  /\ res = <<>>

\* d = Math::AngDiff(x, y, e)
CallAngDiff ==
  /\ res = <<>>
  /\ inp.x \in AngDiffArgs
  /\ res' = <<[fn |-> "AngDiff", v |-> AngDiff(inp.x, inp.y)]>>
  /\ UNCHANGED <<engVars, err, build, maxit2_, newtVars, inp, oracle, plan,
                 g>>

\* the angle the caller normalises next: x, and then the result
NormalizeArg ==
  IF res # <<>> /\ res[1].fn = "AngNormalize" THEN res[Len(res)].v ELSE inp.x

\* x = Math::AngNormalize(x), once and once again
CallAngNormalize(y) ==
  /\ Len(res) < 2
  /\ \A i \in 1 .. Len(res) : res[i].fn = "AngNormalize"
  /\ res' = Append(res,
        [fn |-> "AngNormalize",
         v |-> AngNormalize(build, NormalizeArg, y)])
  /\ UNCHANGED <<engVars, err, build, maxit2_, newtVars, inp, oracle, plan,
                 g>>

NextAngles ==
  \/ CallAngDiff
  \/ \E y \in RemainderIn(build, NormalizeArg) : CallAngNormalize(y)

SpecAngles == InitAngles /\ [][NextAngles]_vars


\* the valid points with different longitudes
SharedPoints == {p \in InversePoints : IsFinite(LatFix(p.lat1))
                                        /\ IsFinite(LatFix(p.lat2))
                                        /\ p.lon2 = R(46)}

\* the values Lambda12 hands back where the loop runs beside other calls
SharedVs == {R(0), FMul(R(32), tol0_)}
SharedDvs(diffp) == Dlam12(diffp) \cap {R(0), R(1), Uninit}

(***************************************************************************)
(* The functions that build a GeodesicLineExact.  A line is kept as the    *)
(* arguments its constructor is handed; the position asked of the          *)
(* temporary line of GenDirect is kept with it.                            *)
(***************************************************************************)
DISTANCE_IN == Mask("DISTANCE_IN")

NoPos == [arcmode |-> FALSE, s12_a12 |-> Old, outmask |-> {}]
NoLine ==
  [st |-> "none", fn |-> "none", azi1 |-> Old, alp1 |-> Alp(Zero, Zero),
   caps |-> {}, arcmode |-> FALSE, s13_a13 |-> Old, pos |-> NoPos]

\* GeodesicLineExact(*this, lat1, lon1, azi1, caps)
LineExact(fn, azi1, caps) ==
  [NoLine EXCEPT !.st = "line", !.fn = fn, !.azi1 = azi1, !.caps = caps]

\* GeodesicLineExact(*this, lat1, lon1, azi1, salp1, calp1, caps, arcmode,
\* s13_a13)
LineExactTo(fn, azi1, alp1, caps, arcmode, s13_a13) ==
  [NoLine EXCEPT !.st = "line", !.fn = fn, !.azi1 = azi1, !.alp1 = alp1,
                 !.caps = caps, !.arcmode = arcmode, !.s13_a13 = s13_a13]

\* if (!arcmode) caps |= DISTANCE_IN
DirectCapsAlways(arcmode, caps) == caps \cup DISTANCE_IN
DirectCaps(arcmode, caps) ==
  IF ~arcmode THEN caps \cup DISTANCE_IN ELSE caps

\* if (caps & (OUT_MASK & DISTANCE_IN)) caps |= DISTANCE
InverseCaps(caps) ==
  IF Has(caps, OUT_MASK \cap DISTANCE_IN) THEN caps \cup DISTANCE ELSE caps

\* Math::atan2d(salp1, calp1)
Atan2d(alp) == [k |-> "atan2d", of |-> alp]

\* GenDirect: the temporary line and the call of its GenPosition
GenDirect(fn, azi1, arcmode, s12_a12, outmask) ==
  [LineExact(fn, azi1, DirectCaps(arcmode, outmask)) EXCEPT
     !.pos = [arcmode |-> arcmode, s12_a12 |-> s12_a12,
              outmask |-> DirectCaps(arcmode, outmask)]]

\* GenDirectLine, for the azi1 that AngNormalize has returned; salp1 and
\* calp1 are the sine and the cosine of AngRound(azi1)
GenDirectLine(fn, azi1, arcmode, s12_a12, caps) ==
  LineExactTo(fn, azi1, Alp(Sym("salp1"), Sym("calp1")),
              DirectCaps(arcmode, caps), arcmode, s12_a12)

\* the caller's function has not returned its line
NoLineYet(fn) == inp.fn = fn /\ res[2].st = "none"
LineReturned(l) ==
  /\ res' = [res EXCEPT ![2] = l]
  /\ UNCHANGED <<engVars, err, build, maxit2_, newtVars, inp, oracle, plan,
                 g>>

CallLine ==
  /\ NoLineYet("Line")
  /\ LineReturned(LineExact("Line", inp.azi1, inp.caps))

CallGenDirect ==
  /\ NoLineYet("GenDirect")
  /\ LineReturned(GenDirect("GenDirect", inp.azi1, inp.arcmode, inp.s12_a12,
                            inp.caps))

CallGenDirectLine(y) ==
  /\ NoLineYet("GenDirectLine")
  /\ LineReturned(GenDirectLine("GenDirectLine",
                                AngNormalize(build, inp.azi1, y),
                                inp.arcmode, inp.s12_a12, inp.caps))

\* return GenDirectLine(lat1, lon1, azi1, false, s12, caps)
CallDirectLine(y) ==
  /\ NoLineYet("DirectLine")
  /\ LineReturned(GenDirectLine("DirectLine",
                                AngNormalize(build, inp.azi1, y),
                                FALSE, inp.s12_a12, inp.caps))

\* return GenDirectLine(lat1, lon1, azi1, true, a12, caps)
CallArcDirectLine(y) ==
  /\ NoLineYet("ArcDirectLine")
  /\ LineReturned(GenDirectLine("ArcDirectLine",
                                AngNormalize(build, inp.azi1, y),
                                TRUE, inp.s12_a12, inp.caps))

\* InverseLine calls the sine/cosine form of GenInverse with outmask 0u
InverseLineSolve ==
  /\ NoLineYet("InverseLine")
  /\ g.st = "idle"
  /\ plan # <<>>
  /\ g' = Entered(1, {}, Canonical(inp.lat1, inp.lon1, inp.lat2, inp.lon2))
  /\ UNCHANGED <<engVars, err, build, maxit2_, newtVars, inp, oracle, plan,
                 res>>

\* and with what GenInverse returned it builds the line
InverseLineBuild ==
  /\ NoLineYet("InverseLine")
  /\ res[1].st = "returned"
  /\ LineReturned(LineExactTo("InverseLine", Atan2d(res[1].alp1),
                              res[1].alp1, InverseCaps(inp.caps), TRUE,
                              res[1].a12))

\* the masks, the azimuths and the functions of the callers
LineCaps ==
  {{}, DISTANCE, DISTANCE_IN, DISTANCE \cup DISTANCE_IN, AZIMUTH \cup AREA,
   AllOutputs \cup DISTANCE_IN \cup {OutputBit("LONG_UNROLL")}}
LineAzimuths == {R(30), R(540)}
DirectFunctions ==
  {"Line", "GenDirect", "GenDirectLine", "DirectLine", "ArcDirectLine"}

InitLine ==
  /\ EngineReady(RU(Unit \div 32))
  /\ build \in {b \in Builds : b.prec = 1}
  /\ maxit2_ = maxit1_ + build.digits + 10
  /\ NewtonIdle
  /\ \/ /\ \E p \in SharedPoints, caps \in LineCaps :
             inp = [lat1 |-> p.lat1, lon1 |-> p.lon1, lat2 |-> p.lat2,
                    lon2 |-> p.lon2, outmask |-> {}, fn |-> "InverseLine",
                    caps |-> caps, azi1 |-> R(0), arcmode |-> TRUE,
                    s12_a12 |-> R(0)]
        /\ oracle \in Oracles
        /\ plan = <<1>>
     \/ /\ \E fn \in DirectFunctions, caps \in LineCaps,
              azi1 \in LineAzimuths, arcmode \in BOOLEAN :
             inp = [lat1 |-> R(10), lon1 |-> R(0), lat2 |-> R(0),
                    lon2 |-> R(0), outmask |-> {}, fn |-> fn,
                    caps |-> caps, azi1 |-> azi1, arcmode |-> arcmode,
                    s12_a12 |-> R(1)]
        /\ oracle = [merid |-> TRUE, short |-> TRUE]
        /\ plan = <<>>
  /\ g = NoG
  /\ res = <<NoG, NoLine>>

NextLine ==
  \/ CallLine
  \/ CallGenDirect
  \/ \E y \in RemainderIn(build, inp.azi1) : CallGenDirectLine(y)
  \/ \E y \in RemainderIn(build, inp.azi1) : CallDirectLine(y)
  \/ \E y \in RemainderIn(build, inp.azi1) : CallArcDirectLine(y)
  \/ InverseLineSolve
  \/ GSolve
  \/ \E v \in SharedVs, dv \in SharedDvs(numit < maxit1_) : NewtonIter(v, dv)
  \/ NewtonExhaust
  \/ GLengths
  \/ GOutputs
  \/ InverseLineBuild

SpecLine == InitLine /\ [][NextLine]_vars

(***************************************************************************)
(* Two callers on one engine: one is in GenInverse, in InverseLine or in   *)
(* one of the functions that build a line, the other is in the C4f of the  *)
(* area block of its own GenInverse; their steps interleave.               *)
(***************************************************************************)
SharedEpsilons == {RU(Unit \div 8)}
SharedFunctions == DirectFunctions \cup {"GenInverse", "InverseLine"}
SharedCaps == {DISTANCE, AllOutputs \cup DISTANCE_IN}

InitShared ==
  /\ EngineReady(RU(Unit \div 32))
  /\ build \in {b \in Builds : b.prec \in {1, 5}}
  /\ maxit2_ = maxit1_ + build.digits + 10
  /\ NewtonIdle
  /\ \/ /\ \E p \in SharedPoints, fn \in {"GenInverse", "InverseLine"} :
             inp = [lat1 |-> p.lat1, lon1 |-> p.lon1, lat2 |-> p.lat2,
                    lon2 |-> p.lon2, outmask |-> AllOutputs, fn |-> fn,
                    caps |-> AllOutputs \cup DISTANCE_IN, azi1 |-> R(0),
                    arcmode |-> TRUE, s12_a12 |-> R(0)]
        /\ oracle \in Oracles
        /\ plan = <<1>>
     \/ /\ \E fn \in DirectFunctions, caps \in SharedCaps,
              arcmode \in BOOLEAN :
             inp = [lat1 |-> R(10), lon1 |-> R(0), lat2 |-> R(0),
                    lon2 |-> R(0), outmask |-> {}, fn |-> fn,
                    caps |-> caps, azi1 |-> R(30), arcmode |-> arcmode,
                    s12_a12 |-> R(1)]
        /\ oracle = [merid |-> TRUE, short |-> TRUE]
        /\ plan = <<>>
  /\ g = NoG
  /\ res = <<NoG, NoLine>>

NextShared ==
  \/ inp.fn = "GenInverse" /\ GCanon(1)
  \/ InverseLineSolve
  \/ GSolve
  \/ \E v \in SharedVs, dv \in SharedDvs(numit < maxit1_) : NewtonIter(v, dv)
  \/ NewtonExhaust
  \/ GLengths
  \/ GOutputs
  \/ InverseLineBuild
  \/ CallLine
  \/ CallGenDirect
  \/ \E y \in RemainderIn(build, inp.azi1) : CallGenDirectLine(y)
  \/ \E y \in RemainderIn(build, inp.azi1) : CallDirectLine(y)
  \/ \E y \in RemainderIn(build, inp.azi1) : CallArcDirectLine(y)
  \/ \E eps \in SharedEpsilons : C4fBegin(eps)
  \/ C4fStep
  \/ C4fEnd

SpecShared == InitShared /\ [][NextShared]_vars

(***************************************************************************)
(* The direct problem along the equator, and the inverse problem for the   *)
(* point it gives.  GenPosition is a function of GeodesicLineExact; on the *)
(* equator, heading east or west, the geodesic stays on the equator, a     *)
(* circle of radius a, and s12 is a * lambda for the lambda it advances.   *)
(* The type real of the model has few bits, so the caller's values are the *)
(* ones for which lon1 + lambda is rounded by nothing.                     *)
(***************************************************************************)
\* the distance that is l degrees of the equator
EquatorDistance(l) == FMul(_a, FMul(l, Degree))

\* Direct(0, lon1, +/-90, s12) without LONG_UNROLL, for s12 the distance of
\* l degrees: lat2 = 0, lon2 = AngNormalize(lon1 +/- l), azi2 = azi1
DirectOnEquator(lon1, azi1, l) ==
  [lat2 |-> R(0),
   lon2 |-> AngNormalizeOf(
              FAdd(lon1, IF SignBit(azi1) THEN FNeg(l) ELSE l),
              Remainder(FAdd(lon1, IF SignBit(azi1) THEN FNeg(l) ELSE l),
                        R(360))),
   azi2 |-> azi1]

\* the caller has s12 and calls Direct; its lat2 and lon2 are the second
\* point of the call of GenInverse that follows
CallDirect ==
  /\ inp.fn = "Direct"
  /\ plan = <<>>
  /\ res[1].st = "idle"
  /\ inp' = [inp EXCEPT
               !.fn = "Inverse",
               !.lat2 = DirectOnEquator(inp.lon1, inp.azi1, inp.l).lat2,
               !.lon2 = DirectOnEquator(inp.lon1, inp.azi1, inp.l).lon2]
  /\ plan' = <<1>>
  /\ UNCHANGED <<engVars, err, build, maxit2_, newtVars, oracle, g, res>>

\* u + v is a value of the type real: the sum rounds nothing
ExactSum(u, v) == Ord(FAdd(u, v)) = Ord(u) + Ord(v)

EquatorLongitudes == {R(0), R(30), R(-176)}
EquatorAdvances ==
  {R(10), R(46), R(90), R(136), R(176), R(180), R(184), R(256), R(360)}

InitRoundTrip ==
  /\ \E f \in {R(0), RU(Unit \div 32)} : EngineReady(f)
  /\ build \in {b \in Builds : b.prec = 2}
  /\ maxit2_ = maxit1_ + build.digits + 10
  /\ NewtonIdle
  /\ \E lon1 \in EquatorLongitudes, azi1 \in {R(90), R(-90)},
        l \in EquatorAdvances :
       /\ ExactSum(lon1, IF SignBit(azi1) THEN FNeg(l) ELSE l)
       /\ inp = [lat1 |-> R(0), lon1 |-> lon1, lat2 |-> Old, lon2 |-> Old,
              outmask |-> AllOutputs, fn |-> "Direct", azi1 |-> azi1,
              l |-> l, s12 |-> EquatorDistance(l)]
  /\ oracle \in Oracles
  /\ plan = <<>>
  /\ g = NoG
  /\ res = [c \in 1 .. 2 |-> NoG]

NextRoundTrip ==
  \/ CallDirect
  \/ GCanon(1)
  \/ GSolve
  \/ GOutputs

SpecRoundTrip == InitRoundTrip /\ [][NextRoundTrip]_vars

(***************************************************************************)
(* Utility::readarray<ExtT, IntT, bigendp> and Math::swab.  A value is the *)
(* sequence of bytes it has in memory, first address first; the number it  *)
(* holds is read in the byte order of the machine.  The stream is a file   *)
(* of len values of ExtT; a read of n values leaves the stream good iff    *)
(* the stream was good and n values remain.  int has IntBits bits and the  *)
(* buffer bufsize values: 32 and 1024 in the source.                       *)
(***************************************************************************)
IntBits == 5
bufsize == 4
Byte == 256

\* int(num)
ToInt(num) ==
  ((num + 2 ^ (IntBits - 1)) % 2 ^ IntBits) - 2 ^ (IntBits - 1)

\* Math::swab<T>(x)
swab(x) == [i \in 1 .. Len(x) |-> x[Len(x) + 1 - i]]

RECURSIVE BigValue(_)
BigValue(c) ==
  IF c = <<>> THEN 0
  ELSE BigValue(SubSeq(c, 1, Len(c) - 1)) * Byte + c[Len(c)]

\* the number a machine of the given byte order reads in the bytes c
ValueOf(c, big) == IF big THEN BigValue(c) ELSE BigValue(swab(c))

\* the bytes such a machine stores for the number v in a type T
BytesOf(v, T, big) ==
  IF big
  THEN [i \in 1 .. T.size |-> (v \div Byte ^ (T.size - i)) % Byte]
  ELSE [i \in 1 .. T.size |-> (v \div Byte ^ (i - 1)) % Byte]

\* IntT(x) for x of an integer type: the number, reduced to the width of IntT
Convert(c, T, big) == BytesOf(ValueOf(c, big) % Byte ^ T.size, T, big)

Char == [size |-> 1, integer |-> TRUE]
Short == [size |-> 2, integer |-> TRUE]

\* the i-th value of the file, as the bytes the file holds
StreamValue(i) ==
  [b \in 1 .. inp.ExtT.size |-> (inp.seed + 7 * i + 3 * b) % Byte]

NoValue == <<>>

\* sizeof(IntT) == sizeof(ExtT) && is_integer of both agree, in the builds
\* with GEOGRAPHICLIB_PRECISION < 4
Compatible ==
  /\ build.prec < 4
  /\ inp.IntT.size = inp.ExtT.size
  /\ inp.IntT.integer = inp.ExtT.integer

\* str.read(..., n * sizeof(ExtT)); str.good()
ReadGood(r, n) == r.good /\ r.pos + n <= inp.len

\* the values a read of n values stores before it stops
ReadCount(r, n) == IF r.good THEN Min(n, inp.len - r.pos) ELSE 0

ReadArrayEntry(r) == (r.st = "called" /\ ~inp.vector) \/ r.st = "entered"

\* readarray(str, std::vector<IntT>& array)
CallReadVector ==
  /\ res[1].st = "called" /\ inp.vector
  /\ res' = <<[res[1] EXCEPT
        !.st = IF inp.num > 0 THEN "entered" ELSE "returned"]>>
  /\ UNCHANGED <<engVars, err, build, maxit2_, newtVars, inp, oracle, plan,
                 g>>

\* the compatible path: one read into the array, then the bytes swapped
ReadCompatible ==
  /\ ReadArrayEntry(res[1]) /\ Compatible
  /\ LET r == res[1]
         got == ReadCount(r, inp.num)
         raw == [j \in DOMAIN r.array |->
                   IF j < got THEN StreamValue(r.pos + j) ELSE r.array[j]]
     IN  IF ReadGood(r, inp.num)
         THEN /\ res' = <<[r EXCEPT
                    !.st = "returned",
                    !.pos = @ + inp.num,
                    !.reads = Append(@, inp.num),
                    !.wr = @ \cup {j \in DOMAIN r.array : j < inp.num},
                    !.array = IF inp.bigendp # inp.bigendian
                              THEN [j \in DOMAIN raw |->
                                      IF j < inp.num THEN swab(raw[j])
                                      ELSE raw[j]]
                              ELSE raw]>>
              /\ err' = err
         ELSE /\ res' = <<[r EXCEPT
                    !.st = "threw",
                    !.good = FALSE,
                    !.pos = @ + got,
                    !.reads = Append(@, inp.num),
                    !.wr = @ \cup {j \in DOMAIN r.array : j < got},
                    !.array = raw]>>
              /\ err' = "Failure reading data"
  /\ UNCHANGED <<engVars, build, maxit2_, newtVars, inp, oracle, plan, g>>

\* int k = int(num); int i = 0;
BufferedBegin ==
  /\ ReadArrayEntry(res[1]) /\ ~Compatible
  /\ res' = <<[res[1] EXCEPT !.st = "loop", !.k = ToInt(inp.num), !.i = 0]>>
  /\ UNCHANGED <<engVars, err, build, maxit2_, newtVars, inp, oracle, plan,
                 g>>

\* array[i++] = IntT(bigendp == Math::bigendian ? buffer[j] : swab(buffer[j]))
Stored(c) ==
  Convert(IF inp.bigendp = inp.bigendian THEN c ELSE swab(c),
          inp.IntT, inp.host)

\* one turn of while (k) with 0 <= n: a chunk is read, converted and stored
BufferedChunk ==
  /\ res[1].st = "loop" /\ res[1].k > 0
  /\ LET r == res[1]
         n == Min(r.k, bufsize)
     IN  IF ReadGood(r, n)
         THEN /\ res' = <<[r EXCEPT
                    !.pos = @ + n,
                    !.reads = Append(@, n),
                    !.i = @ + n,
                    !.k = @ - n,
                    !.wr = @ \cup {j \in r.i .. r.i + n - 1 : TRUE},
                    !.array = [j \in DOMAIN r.array |->
                                 IF j \in r.i .. r.i + n - 1
                                 THEN Stored(StreamValue(r.pos + j - r.i))
                                 ELSE r.array[j]]]>>
              /\ err' = err
         ELSE /\ res' = <<[r EXCEPT
                    !.st = "threw",
                    !.good = FALSE,
                    !.pos = @ + ReadCount(r, n),
                    !.reads = Append(@, n)]>>
              /\ err' = "Failure reading data"
  /\ UNCHANGED <<engVars, build, maxit2_, newtVars, inp, oracle, plan, g>>

\* one turn of while (k) with k < 0: n = k, and str.read is handed a
\* negative count.  The library either sets failbit, or reads nothing and
\* leaves the stream as it was; then for (j < n) stores nothing and k -= n
\* is 0.
BufferedNegative(fails) ==
  /\ res[1].st = "loop" /\ res[1].k < 0
  /\ LET r == res[1]
     IN  IF fails \/ ~r.good
         THEN /\ res' = <<[r EXCEPT !.st = "threw", !.good = FALSE,
                                    !.reads = Append(@, r.k)]>>
              /\ err' = "Failure reading data"
         ELSE /\ res' = <<[r EXCEPT !.k = 0, !.reads = Append(@, r.k)]>>
              /\ err' = err
  /\ UNCHANGED <<engVars, build, maxit2_, newtVars, inp, oracle, plan, g>>

\* while (k) with k == 0; return
BufferedEnd ==
  /\ res[1].st = "loop" /\ res[1].k = 0
  /\ res' = <<[res[1] EXCEPT !.st = "returned"]>>
  /\ UNCHANGED <<engVars, err, build, maxit2_, newtVars, inp, oracle, plan,
                 g>>

ReadArrayNums ==
  0 .. 2 * bufsize + 1 \cup 2 ^ (IntBits - 1) - 1 .. 2 ^ (IntBits - 1) + 1
    \cup 2 ^ IntBits - 1 .. 2 ^ IntBits + 1
ReadArrayLens(num) == {n \in {0, num - 1, num, num + 3} : n >= 0}

InitReadArray ==
  /\ EngineReady(R(0))
  /\ build \in {b \in Builds : b.prec \in {2, 4}}
  /\ maxit2_ = maxit1_ + build.digits + 10
  /\ NewtonIdle
  /\ \E num \in ReadArrayNums :
       inp \in [fn : {"readarray"}, vector : BOOLEAN,
                ExtT : {Char, Short}, IntT : {Char, Short},
                bigendp : BOOLEAN, bigendian : BOOLEAN, host : BOOLEAN,
                num : {num}, len : ReadArrayLens(num), seed : {1, 250},
                good : BOOLEAN]
  /\ oracle = [merid |-> TRUE, short |-> TRUE]
  /\ plan = <<>>
  /\ g = NoG
  /\ res = <<[st |-> "called", k |-> 0, i |-> 0, pos |-> 0,
              good |-> inp.good, reads |-> <<>>, wr |-> {},
              array |-> [j \in 0 .. inp.num |-> NoValue]]>>

NextReadArray ==
  \/ CallReadVector
  \/ ReadCompatible
  \/ BufferedBegin
  \/ BufferedChunk
  \/ \E fails \in BOOLEAN : BufferedNegative(fails)
  \/ BufferedEnd

SpecReadArray == InitReadArray /\ [][NextReadArray]_vars

(***************************************************************************)
(* C1.  The constructor fails, with no engine and the table untouched,     *)
(* exactly when a is not finite or a <= 0, or b = a * (1 - f) is not       *)
(* finite or b <= 0; an invalid a gives the equatorial-radius error also   *)
(* when b is invalid; every other (a, f) is accepted.                      *)
(***************************************************************************)
Invalid(x) == x.k # "fin" \/ x.s = -1 \/ x.m = 0
TableUntouched == ctr.k = 0 /\ \A i \in DOMAIN _cC4x : _cC4x[i] = Unset

C1_ConstructorValidation ==
  pc # "none" =>
    /\ Invalid(_a) =>
         /\ pc = "failed" /\ err = "Equatorial radius is not positive"
         /\ TableUntouched
    /\ ~Invalid(_a) /\ Invalid(_b) =>
         /\ pc = "failed" /\ err = "Polar semi-axis is not positive"
         /\ TableUntouched
    /\ ~Invalid(_a) /\ ~Invalid(_b) => pc # "failed" /\ err = "none"

C1_Witness ==
  /\ pc = "failed" /\ err = "Equatorial radius is not positive"
  /\ _a.k = "inf" /\ _a.s = 1 /\ IsNaN(_b)

(***************************************************************************)
(* C4.  The Newton/bisection loop terminates: whatever v and dv Lambda12   *)
(* returns, one GenInverse evaluates Lambda12 at most                      *)
(* maxit2 = maxit1 + digits + 10 times, with maxit1 = 20, and the loop is  *)
(* then left.  Every pass of the loop that does not leave it is one more   *)
(* evaluation, the count of evaluations is bounded, and at the bound the   *)
(* loop can only be left.                                                  *)
(***************************************************************************)
C4_LoopTerminates ==
  /\ [](evals <= 20 + build.digits + 10)
  /\ [](npc = "loop" => evals = numit)
  /\ [][npc = "loop" => npc' # "loop" \/ evals' = evals + 1]_vars
  /\ [][npc = "loop" /\ evals = 20 + build.digits + 10 => npc' # "loop"]_vars
  /\ [][npc # "loop" => npc' = npc /\ evals' = evals]_vars

C4_Witness ==
  npc = "left" /\ build.prec = 2 /\ build.digits = 53 /\ evals = 83
    /\ numit = 83

(***************************************************************************)
(* C5.  When the loop comes to numit = maxit2 without a break, a build     *)
(* with a multiprecision real (float128, mpreal) throws "Convergence       *)
(* failure"; a build with float, double or long double leaves the loop     *)
(* with no error.  The error is raised nowhere else.                       *)
(***************************************************************************)
Multiprecision(b) == b.prec \in {4, 5}

C5_ConvergenceFailure ==
  /\ [](err # "none" <=> npc = "thrown")
  /\ [](npc = "thrown" =>
          /\ err = "Convergence failure"
          /\ Multiprecision(build)
          /\ numit = 20 + build.digits + 10 /\ evals = numit)
  /\ [](npc = "left" /\ numit >= 20 + build.digits + 10 =>
          ~Multiprecision(build) /\ err = "none")
  /\ [][npc = "loop" /\ numit >= 20 + build.digits + 10 =>
          npc' = IF Multiprecision(build) THEN "thrown" ELSE "left"]_vars

C5_Witness ==
  npc = "thrown" /\ build.prec = 4 /\ numit = 143 /\ err = "Convergence failure"

(***************************************************************************)
(* C7.  For each order, when the double loop of C4coeff ends the read      *)
(* offset o is the length of coeff and the write index k is nC4x; no read  *)
(* of coeff and no write of _cC4x leaves its array, so C4coeff does not    *)
(* raise "C4 misalignment".                                                *)
(***************************************************************************)
C7_C4coeffAligned ==
  /\ "coeff" \notin oob /\ "_cC4x" \notin oob
  /\ pc = "C4coeff" =>
       /\ ctr.o <= CoeffLen(nC4) /\ ctr.k <= nC4x(nC4)
       /\ ctr.l >= nC4 =>
            ctr.o = (nC4 * (nC4 + 1) * (nC4 + 5)) \div 6
              /\ ctr.k = (nC4 * (nC4 + 1)) \div 2

C7_Witness == pc = "C4coeff" /\ ctr.l = nC4 /\ nC4 = 30 /\ ctr.k = 465

(***************************************************************************)
(* C8.  For each order and each eps, C4f writes exactly c[0 .. nC4-1],     *)
(* every polyval reads inside _cC4x, and after the loop o = nC4x, so C4f   *)
(* does not raise "C4 misalignment".                                       *)
(***************************************************************************)
C8_C4fAligned ==
  /\ "_cC4x + o" \notin oob
  /\ pc = "C4f" =>
       /\ cW = 0 .. ctr.l - 1
       /\ ctr.l <= nC4
       /\ ctr.l >= nC4 => ctr.o = (nC4 * (nC4 + 1)) \div 2
  /\ pc = "ready" => err = "none"

C8_Witness ==
  /\ pc = "C4f" /\ ctr.l = nC4 /\ nC4 = 27 /\ cW = 0 .. 26 /\ IsNaN(c4f.eps)

(***************************************************************************)
(* C2.  For two points with finite longitudes and with latitudes that are  *)
(* not NaN and have |lat| <= 90, after the canonicalisation of GenInverse  *)
(* 0 <= lon12 <= 180, -90 <= lat1 <= 0 and lat1 <= lat2 <= -lat1, and      *)
(* each of lonsign, latsign, swapp is -1 or +1.                            *)
(***************************************************************************)
NonNaNPoints ==
  /\ ~IsNaN(inp.lat1) /\ ~IsNaN(inp.lat2)
  /\ ~IsNaN(inp.lon1) /\ ~IsNaN(inp.lon2)
  /\ FLe(FAbs(inp.lat1), R(90)) /\ FLe(FAbs(inp.lat2), R(90))
FinitePoints == NonNaNPoints /\ IsFinite(inp.lon1) /\ IsFinite(inp.lon2)
CanonicalForm(k) ==
  /\ FLe(R(0), k.lon12) /\ FLe(k.lon12, R(180))
  /\ FLe(R(-90), k.lat1) /\ FLe(k.lat1, R(0))
  /\ FLe(k.lat1, k.lat2) /\ FLe(k.lat2, FNeg(k.lat1))
  /\ k.lonsign \in {-1, 1} /\ k.latsign \in {-1, 1} /\ k.swapp \in {-1, 1}

C2_CanonicalForm ==
  /\ g.st # "idle" /\ FinitePoints => CanonicalForm(g)
  /\ \A c \in 1 .. 2 :
       res[c].st = "returned" /\ FinitePoints => CanonicalForm(res[c])

C2_Witness ==
  /\ g.st = "canon" /\ g.call = 1 /\ FinitePoints
  /\ inp.lat1 = R(-30) /\ inp.lat2 = R(90) /\ inp.lon1 = R(176)
  /\ inp.lon2 = R(-176)
  /\ g.swapp = -1 /\ g.latsign = -1 /\ g.lonsign = -1
  /\ g.lat1 = R(-90) /\ g.lat2 = R(30) /\ g.lon12 = R(8)

\* C2 as it is stated: the same for every longitude that is not a NaN, the
\* infinite ones too
C2_AnyLongitude == g.st # "idle" /\ NonNaNPoints => CanonicalForm(g)

(***************************************************************************)
(* C3.  Symmetry.  For two valid points, GenInverse(lat1, lon1, lat2,      *)
(* lon2) and GenInverse(lat2, lon2, lat1, lon1) come to the same canonical *)
(* lat1, lat2, lon12 and lon12s, take the same solution path and return    *)
(* the same s12 and a12.  If |lat1| # |lat2|, and the longitudes differ or *)
(* the geodesic is meridional, alpha1 of each call is alpha2 of the other  *)
(* flipped by 180 degrees (sine and cosine both negated), for a meridional *)
(* geodesic as for any other.                                              *)
(***************************************************************************)
BothReturned == res[1].st = "returned" /\ res[2].st = "returned"

\* the numeric equality of two symbols: a zero equals a zero of the other
\* sign
SymEq(x, y) == (x.sym = "0" /\ y.sym = "0") \/ x = y
AlpEq(x, y) == SymEq(x.sin, y.sin) /\ SymEq(x.cos, y.cos)
Flip(x) == Alp(Times(x.sin, -1), Times(x.cos, -1))

SameCanonical ==
  /\ res[1].lat1 = res[2].lat1 /\ res[1].lat2 = res[2].lat2
  /\ res[1].lon12 = res[2].lon12 /\ res[1].lon12s = res[2].lon12s
  /\ res[1].path = res[2].path
  /\ res[1].s12 = res[2].s12 /\ res[1].a12 = res[2].a12
SwappedFlipped ==
  /\ AlpEq(res[1].alp1, Flip(res[2].alp2))
  /\ AlpEq(res[1].alp2, Flip(res[2].alp1))
SwappedUnflipped ==
  /\ AlpEq(res[1].alp1, res[2].alp2)
  /\ AlpEq(res[1].alp2, res[2].alp1)
DifferentLatitudes ==
  ~FEq(FAbs(AngRound(inp.lat1)), FAbs(AngRound(inp.lat2)))

InvalidLatitude == IsNaN(LatFix(inp.lat1)) \/ IsNaN(LatFix(inp.lat2))

C6_NaNLatitude ==
  InvalidLatitude =>
    /\ err = "none" /\ npc # "thrown"
    /\ g.st # "idle" => IsNaN(g.lat1)
    /\ g.st = "loop" =>
         /\ g.path = "newton"
         /\ (npc = "loop" /\ evals = 0) \/ (npc = "left" /\ evals = 1)
    /\ g.st = "solved" => g.path = "newton" /\ evals = 1
    /\ res[1].st = "returned" =>
         /\ res[1].path = "newton" /\ evals = 1
         /\ IsNaN(res[1].lat1)
         /\ IsNaN(res[1].a12)
         /\ DISTANCE \subseteq inp.outmask => IsNaN(res[1].s12)

C6_Witness ==
  /\ res[1].st = "returned" /\ Panics(build)
  /\ inp.lat1 = R(0) /\ inp.lat2 = R(-91)
  /\ DISTANCE \subseteq inp.outmask
  /\ res[1].swapp = -1 /\ IsNaN(res[1].lat1)
  /\ IsNaN(res[1].a12) /\ IsNaN(res[1].s12) /\ evals = 1 /\ err = "none"

(***************************************************************************)
(* C9.  The a12 that GenInverse returns lies in [0, 180] for all valid     *)
(* points on every solution path; on the equatorial path a12 = lon12 /     *)
(* (1 - f) does not exceed 180.                                            *)
(***************************************************************************)
InRange(a) == a = Arc \/ (FLe(R(0), a) /\ FLe(a, R(180)))

C9_ArcInRange ==
  \A c \in 1 .. 2 :
    res[c].st = "returned" /\ FinitePoints => InRange(res[c].a12)

(***************************************************************************)
(* C10.  The azimuth form of GenInverse assigns s12 iff DISTANCE is set in *)
(* outmask, m12 iff REDUCEDLENGTH, M12 and M21 iff GEODESICSCALE, S12 iff  *)
(* AREA, azi1 and azi2 iff AZIMUTH: an output whose bit is clear is left   *)
(* alone at every step of every solution path, and an output whose bit is  *)
(* set is assigned when the call returns.                                  *)
(***************************************************************************)
Selected ==
  (IF DISTANCE \subseteq inp.outmask THEN {"s12"} ELSE {})
    \cup (IF REDUCEDLENGTH \subseteq inp.outmask THEN {"m12"} ELSE {})
    \cup (IF GEODESICSCALE \subseteq inp.outmask THEN {"M12", "M21"} ELSE {})
    \cup (IF AREA \subseteq inp.outmask THEN {"S12"} ELSE {})
    \cup (IF AZIMUTH \subseteq inp.outmask THEN {"azi1", "azi2"} ELSE {})

C10_OutputMask ==
  /\ g.wr \subseteq Selected
  /\ res[1].st = "returned" => res[1].wr = Selected
  /\ res[1].st # "returned" => res[1].wr = {}

C10_Witness ==
  /\ res[1].st = "returned" /\ res[1].path = "newton" /\ ~res[1].nan
  /\ inp.outmask = DISTANCE \cup GEODESICSCALE
  /\ res[1].wr = {"s12", "M12", "M21"}
  /\ inp.lon1 = inp.lon2


(***************************************************************************)
(* C11.  GenInverse with lat1 = lat2 = 0, f >= 0 and finite longitudes     *)
(* that differ, on an ellipsoid where lon12s >= f * 180 (the points are    *)
(* not nearly antipodal) and lon12s is not zero, returns sines of alpha1   *)
(* and alpha2 that are both 1 or both -1 with zero cosines (azimuths 90 or *)
(* -90 degrees) and s12 = a * lambda12, lambda12 the canonical longitude   *)
(* difference in radians.                                                  *)
(***************************************************************************)
OnEquator == IsZero(inp.lat1) /\ IsZero(inp.lat2) /\ FGe(_f, R(0))
EastOrWest(r) ==
  /\ r.alp1.sin.sym = "1" /\ r.alp1.cos.sym = "0"
  /\ r.alp2.sin.sym = "1" /\ r.alp2.cos.sym = "0"
  /\ r.alp1.sin.sgn = r.alp2.sin.sgn
AlongEquator(r) == r.s12 = FMul(_a, FMul(r.lon12, FDiv(Pi, R(180))))

C11_Equatorial ==
  \A c \in 1 .. 2 :
    /\ res[c].st = "returned" /\ OnEquator /\ FinitePoints
    /\ ~IsZero(res[c].lon12) /\ ~IsZero(res[c].lon12s)
    /\ FGe(res[c].lon12s, FMul(_f, R(180)))
    => EastOrWest(res[c]) /\ AlongEquator(res[c])

C11_Witness ==
  /\ res[1].st = "returned" /\ OnEquator /\ _f = RU((3 * Unit) \div 4)
  /\ inp.lon1 = R(0) /\ inp.lon2 = R(46)
  /\ res[1].path = "equatorial" /\ res[1].lon12 = R(46)
  /\ EastOrWest(res[1]) /\ AlongEquator(res[1])

\* C11 as it is stated: the same for every longitude difference; the length
\* is compared where the model has its value, on the equatorial path
C11_EveryLongitude ==
  \A c \in 1 .. 2 :
    res[c].st = "returned" /\ OnEquator /\ FinitePoints
    => /\ EastOrWest(res[c])
       /\ res[c].path = "equatorial" => AlongEquator(res[c])


(***************************************************************************)
(* C12.  For an oblate, a spherical and a prolate ellipsoid and any two    *)
(* latitudes, GenInverse with lon1 = lon2 returns, when the meridional     *)
(* solution passes its test sig12 < 1 || m12x >= 0, a sine of alpha1 and   *)
(* of alpha2 that is a zero and a cosine that is 1 or -1: each azimuth is  *)
(* 0 or 180 degrees.                                                       *)
(***************************************************************************)
SameLongitude ==
  IsFinite(inp.lon1) /\ IsFinite(inp.lon2) /\ FEq(inp.lon1, inp.lon2)
NorthOrSouth(alp) == alp.sin.sym = "0" /\ alp.cos.sym = "1"

Turn == 360 * Unit
AngDiffLaw(x, y, d, e) ==
  /\ IsFinite(d) /\ IsFinite(e)
  /\ (Ord(d) + Ord(e) + Ord(x) - Ord(y)) % Turn = 0
  /\ FLe(FAbs(d), R(180))
  /\ (IsZero(d) \/ FEq(FAbs(d), R(180))) /\ IsZero(e)
     => SignBit(d) = SignBit(FSub(y, x))

C13_AngDiffLaw ==
  Len(res) = 1 /\ res[1].fn = "AngDiff"
  => AngDiffLaw(inp.x, inp.y, res[1].v.d, res[1].v.e)

C13_Witness ==
  /\ Len(res) = 1 /\ res[1].fn = "AngDiff"
  /\ inp.x = RU(1) /\ inp.y = R(-180)
  /\ res[1].v.d = R(180) /\ res[1].v.e = FNeg(RU(1))

(***************************************************************************)
(* C14.  For every finite x, AngNormalize(x) lies in [-180, 180] and is    *)
(* congruent to x modulo 360; a result that is a zero or 180 or -180 has   *)
(* the sign of x; and AngNormalize(AngNormalize(x)) = AngNormalize(x).     *)
(***************************************************************************)
Normalized(x, v) ==
  /\ FLe(R(-180), v) /\ FLe(v, R(180))
  /\ (Ord(v) - Ord(x)) % Turn = 0
  /\ IsZero(v) \/ FEq(FAbs(v), R(180)) => SignBit(v) = SignBit(x)

C14_AngNormalize ==
  Len(res) >= 1 /\ res[1].fn = "AngNormalize"
  => /\ Normalized(inp.x, res[1].v)
     /\ Len(res) = 2 => res[2].v = res[1].v

C14_Witness ==
  /\ Len(res) = 2 /\ res[1].fn = "AngNormalize"
  /\ inp.x = R(540) /\ res[1].v = R(180) /\ res[2].v = R(180)


(***************************************************************************)
(* C15.  After construction no step of a GenInverse call (its helpers      *)
(* Lengths, InverseStart and Lambda12 of the Newton loop included) and no  *)
(* step of C4f changes a field of the engine (a, f, b, the iteration cap,  *)
(* the order and the C4 table), and a step of one caller changes nothing   *)
(* that the other caller holds: two calls on one engine share no mutable   *)
(* state.                                                                  *)
(***************************************************************************)
EngineFields == <<nC4, _a, _f, _b, _cC4x, maxit2_, build>>
InverseLocals == <<g, res, plan, newtVars>>
\* (err, the exception in flight, is of the call that throws)
C4fLocals == <<pc, ctr, oob, c4f, cW>>
ReadOnlyStep ==
  /\ EngineFields' = EngineFields
  /\ InverseLocals' # InverseLocals => C4fLocals' = C4fLocals
  /\ C4fLocals' # C4fLocals => InverseLocals' = InverseLocals

C15_ReadOnly == [][ReadOnlyStep]_vars

C15_Witness ==
  /\ pc = "C4f" /\ ctr.l = 3 /\ cW = 0 .. 2
  /\ g.st = "loop" /\ npc = "loop" /\ numit = 2 /\ evals = 2
  /\ _a = R(1) /\ _cC4x = [i \in 0 .. nC4x(nC4) - 1 |-> <<0, 0>>]


(***************************************************************************)
(* C16.  GenDirect and GenDirectLine with arcmode = false, and DirectLine, *)
(* build the line with DISTANCE_IN added to the caller's mask, whatever    *)
(* the mask; with arcmode = true, and in ArcDirectLine, the caller's mask  *)
(* is passed on unchanged; InverseLine adds DISTANCE to the caller's caps  *)
(* exactly when they contain DISTANCE_IN, and builds the line in arc mode  *)
(* with a13 = the a12 that GenInverse returned.                            *)
(***************************************************************************)
WithDistanceIn(l) == l.caps = inp.caps \cup Mask("DISTANCE_IN")
LineBuilt(l) ==
  /\ l.fn \in {"GenDirect", "GenDirectLine"}
     => IF inp.arcmode THEN l.caps = inp.caps ELSE WithDistanceIn(l)
  /\ l.fn = "GenDirectLine" => l.arcmode = inp.arcmode
  /\ l.fn = "DirectLine" => WithDistanceIn(l) /\ ~l.arcmode
  /\ l.fn = "ArcDirectLine" => l.caps = inp.caps /\ l.arcmode
  /\ l.fn = "InverseLine"
     => /\ l.caps = IF Mask("DISTANCE_IN") \subseteq inp.caps
                    THEN inp.caps \cup Mask("DISTANCE") ELSE inp.caps
        /\ l.arcmode
        /\ l.s13_a13 = res[1].a12

C16_LineCapabilities == res[2].st = "line" => LineBuilt(res[2])

C16_Witness ==
  /\ res[2].st = "line" /\ res[2].fn = "InverseLine"
  /\ inp.caps = Mask("DISTANCE_IN")
  /\ res[2].caps = Mask("DISTANCE_IN") \cup Mask("DISTANCE")
  /\ res[1].path = "newton" /\ res[2].s13_a13 = Arc /\ res[2].arcmode


(***************************************************************************)
(* C17.  If (lat2, lon2, alpha2) = Direct(lat1, lon1, alpha1, s12) and the *)
(* geodesic of length s12 is the shortest one between its end points,      *)
(* Inverse(lat1, lon1, lat2, lon2) returns s12, alpha1 and alpha2 again.   *)
(* Here: from a point of the equator, heading east or west, for an s12     *)
(* that is less than 180 degrees and at most (1 - f) * 180 degrees of the  *)
(* equator.                                                                *)
(***************************************************************************)
ShortestOnEquator ==
  /\ FLt(inp.l, R(180))
  /\ FLe(inp.l, FMul(FSub(R(1), _f), R(180)))
RoundTrip(r) ==
  /\ r.s12 = inp.s12
  /\ r.alp1 = Alp([One EXCEPT !.sgn = inp.azi1.s], r.alp1.cos)
  /\ r.alp1.cos.sym = "0"
  /\ r.alp2 = r.alp1

Expected(j) ==
  ValueOf(IF inp.bigendp # inp.bigendian THEN swab(StreamValue(j))
          ELSE StreamValue(j), inp.host) % Byte ^ inp.IntT.size

Supplied == inp.good /\ inp.len >= inp.num

ReadArrayDone(r) == r.st \in {"returned", "threw"}

ArrayStored(r) ==
  /\ r.st = "returned"
  /\ r.wr = 0 .. inp.num - 1
  /\ \A j \in 0 .. inp.num - 1 :
       r.array[j] # NoValue /\ ValueOf(r.array[j], inp.host) = Expected(j)
  /\ r.array[inp.num] = NoValue

ChunksRead(r) ==
  /\ \A c \in 1 .. Len(r.reads) :
       r.reads[c] > 0 /\ r.reads[c] = Min(inp.num - (c - 1) * bufsize, bufsize)
  /\ r.st = "returned" => Len(r.reads) * bufsize >= inp.num

C18_ReadArray ==
  LET r == res[1]
  IN  /\ ReadArrayDone(r) /\ Supplied => ArrayStored(r)
      /\ r.wr \subseteq 0 .. inp.num - 1
      /\ r.st \in {"loop", "returned", "threw"} /\ ~Compatible => ChunksRead(r)
      /\ r.st = "threw" => err = "Failure reading data" /\ ~r.good
      /\ r.st # "threw" => err = "none"
      /\ inp.vector /\ inp.num = 0 /\ r.st # "called" =>
            r.st = "returned" /\ r.reads = <<>>

(***************************************************************************)
(* C19.  When a bisection has set tripb and the loop test passes           *)
(* (numit < maxit2_), the next pass evaluates Lambda12 once, at the        *)
(* bisected alpha1, which no evaluation has seen yet, and breaks: alpha1,  *)
(* the bracket and numit stay as they are.  When tripb is set in the last  *)
(* pass, numit = maxit2_ - 1, the loop test fails next: the loop is left,  *)
(* or the build throws, with no evaluation at the bisected alpha1.         *)
(***************************************************************************)
Tripped == npc = "loop" /\ tripb

\* one more evaluation, at the alpha1 of now, and out of the loop
OneMoreThenExit ==
  /\ evals' = evals + 1
  /\ lam'.at = gen
  /\ npc' = "left"
  /\ gen' = gen /\ ord' = ord /\ numit' = numit

\* out of the loop with no evaluation
ExitUnevaluated ==
  /\ evals' = evals /\ lam' = lam
  /\ npc' = IF Panics(build) THEN "thrown" ELSE "left"
  /\ gen' = gen /\ ord' = ord

TrippedStep ==
  Tripped =>
    /\ ~tripn /\ lam.at = gen - 1
    /\ IF numit < maxit2_ THEN OneMoreThenExit ELSE ExitUnevaluated

C19_TripbExit == [][TrippedStep]_vars

C19_Witness ==
  /\ npc = "left" /\ tripb /\ lam.at = gen
  /\ numit = maxit2_ - 1 /\ evals = numit + 1

\* the statement for every pass, the last one before maxit2_ included
C19_EveryIndex == [][Tripped => OneMoreThenExit]_vars

(***************************************************************************)
(* C20.  In a pass of the loop that does not break: a Newton step is taken *)
(* only with numit < maxit1_ and dv > 0, and only if the rotated           *)
(* sin(alpha1) is positive and |dalp1| < pi; every other pass, and so      *)
(* every pass with numit >= maxit1_, sets alpha1 to the normalised         *)
(* midpoint of the bracket, between its ends, and tripn to false.  Every   *)
(* call of Lambda12 has diffp = (numit < maxit1_).                         *)
(***************************************************************************)
\* alpha1 is between the ends of the bracket, or on one of them
InBracket(o) == o.a \in {0, -o.ab} /\ o.b \in {0, o.ab}

Evaluates == evals' = evals + 1
Continues == Evaluates /\ npc' = "loop"

StepLaw ==
  /\ Evaluates => lam'.diffp = (numit < maxit1_) /\ lam'.at = gen
  /\ Continues =>
        /\ numit' = numit + 1
        /\ lam'.step \in {"newton", "midpoint"}
        /\ lam'.step = "newton" <=>
              numit < maxit1_ /\ lam'.dvpos /\ lam'.legal
        /\ lam'.step = "midpoint" => InBracket(ord') /\ ~tripn'
        /\ lam'.step = "newton" => tripb' = tripb

C20_NewtonOrMidpoint == [][StepLaw]_vars

C20_Witness ==
  /\ npc = "loop" /\ numit = maxit1_ + 2
  /\ lam.step = "midpoint" /\ ~lam.diffp /\ ~tripn
  /\ ord.a = 0

(***************************************************************************)
(* C21.  A pass of the loop replaces alpha1b by alpha1 only if it breaks   *)
(* not and v > 0 and (numit > maxit1_ or alpha1 is below alpha1b), and     *)
(* alpha1a only if v < 0 and (numit > maxit1_ or alpha1 is above alpha1a)  *)
(* (the cotangent falls as the angle grows); it replaces at most one end,  *)
(* and none when it breaks; an end that is not the initial one is an       *)
(* alpha1 that was evaluated, with v > 0 for alpha1b and v < 0 for         *)
(* alpha1a; with numit <= maxit1_ an end moves towards the other only.     *)
(***************************************************************************)
EndsEvaluated ==
  /\ res[1].b.from = "eval" => res[1].b.v = "pos"
  /\ res[1].a.from = "eval" => res[1].a.v = "neg"

BracketStep ==
  LET w == res[1]
      n == res'[1]
  IN  IF ~Evaluates THEN n.a = w.a /\ n.b = w.b
      ELSE /\ n.moved = "b" =>
                 /\ npc' = "loop" /\ lam'.at = gen
                 /\ n.b.from = "eval" /\ n.b.v = "pos" /\ n.a = w.a
                 /\ numit > maxit1_ \/ ord.b < 0
           /\ n.moved = "a" =>
                 /\ npc' = "loop" /\ lam'.at = gen
                 /\ n.a.from = "eval" /\ n.a.v = "neg" /\ n.b = w.b
                 /\ numit > maxit1_ \/ ord.a > 0
           /\ n.moved = "none" => n.a = w.a /\ n.b = w.b
           /\ npc' # "loop" => n.moved = "none"
           /\ EndsEvaluated'

C21_BracketUpdate == [][BracketStep]_vars

C21_Witness ==
  /\ npc = "loop" /\ numit <= maxit1_
  /\ res[1].moved = "b"
  /\ res[1].a.from = "eval" /\ res[1].b.from = "eval"

(***************************************************************************)
(* C22.  After the canonical form GenInverse takes one path: the           *)
(* meridional solution iff (lat1 = -90 or sin(lambda12) = 0) and           *)
(* sig12 < 1 || m12x >= 0, which is false when sig12 and m12x are NaN;     *)
(* else the equatorial solution iff sbet1 = 0 and (f <= 0 or lon12s >=     *)
(* f * 180); else InverseStart, and the Newton loop iff it returned no     *)
(* sig12 >= 0.  A rejected candidate goes on to the other tests, and a12   *)
(* and the four components of the azimuths are assigned on every path.     *)
(***************************************************************************)
PathTaken == g.st \in {"solved", "loop"}

DataNaN == IsNaN(g.lat1) \/ IsNaN(g.lat2) \/ IsNaN(g.lon12)

OnMeridian ==
  \/ FEq(g.lat1, R(-90))
  \/ IF FGt(g.lon12, R(90)) THEN IsZero(g.lon12s) ELSE IsZero(g.lon12)

OnEquatorTest ==
  IsZero(g.lat1) /\ (FLe(_f, R(0)) \/ FGe(g.lon12s, FMul(_f, R(180))))

\* sig12 >= 1 and m12x < 0: neither holds for a NaN
RejectedAsStated == ~DataNaN /\ ~oracle.merid

\* !(sig12 < 1 || m12x >= 0)
Rejected == DataNaN \/ ~oracle.merid

PathIs(rejected) ==
  IF OnMeridian /\ ~rejected THEN "meridional"
  ELSE IF OnEquatorTest THEN "equatorial"
  ELSE IF ~DataNaN /\ oracle.short THEN "short"
  ELSE "newton"

Unassigned == Alp(Zero, Zero)

OnePath(rejected) ==
  PathTaken =>
    /\ g.path = PathIs(rejected)
    /\ g.meridian = (g.path = "meridional")
    /\ (g.st = "loop") = (g.path = "newton")
    /\ (npc = "loop") = (g.path = "newton")
    /\ g.alp1 # Unassigned /\ g.alp2 # Unassigned
    /\ g.st = "solved" => g.a12 # Old

C22_OnePath == OnePath(Rejected)

C22_Witness ==
  /\ PathTaken /\ OnMeridian /\ Rejected /\ ~DataNaN
  /\ g.path = "equatorial"

\* the candidate rejected iff sig12 >= 1 and m12x < 0
C22_RejectedAsStated == OnePath(RejectedAsStated)

\* ---------------------------------------------------------------------
\* The starting guess: InverseStart and the caller's use of its outputs
\* ---------------------------------------------------------------------

\* floor of the square root of a natural number
ISqrt(n) == CHOOSE k \in 0 .. 2 ^ MaxBits : k * k <= n /\ (k + 1) * (k + 1) > n

tol1_ == FMul(R(200), tol0_)
tol2_ == Fin(1, RoundUnits(ISqrt(tol0_.m * Unit), 1))
xthresh_ == FMul(R(1000), tol2_)

\* which branch Astroid(x, y) takes: "zero" is k = 0
Astroid(x, y) ==
  LET p == FMul(x, x)
      q == FMul(y, y)
      r == FDiv(FSub(FAdd(p, q), R(1)), R(6))
  IN  IF ~(FEq(q, R(0)) /\ FLe(r, R(0))) THEN "general" ELSE "zero"

\* the test of the strip near the cut, with x > -1/2 in place of
\* x > -1 - xthresh_
StripNearCutHalf(x, y) == FGt(y, FNeg(tol1_)) /\ FGt(x, FNeg(RU(Unit \div 2)))

\* the test of the strip near the cut
StripNearCut(x, y) ==
  FGt(y, FNeg(tol1_)) /\ FGt(x, FSub(R(-1), xthresh_))

\* the short-line return taken on the size of ssig12 alone
ShortReturnSmall(shortline, small) == small

\* the short-line return: shortline && ssig12 < _etol2
ShortReturn(shortline, small) == shortline /\ small

\* the references InverseStart has assigned, what it returns, whether it
\* called Astroid and whether it divided by a zero k, and what GenInverse
\* read of dnm, salp2 and calp2 before assigning them itself
NoStart ==
  [at |-> "entry", shortline |-> FALSE, small |-> FALSE, skip |-> FALSE,
   x |-> R(0), y |-> R(0), wr |-> {}, ret |-> "none", astroid |-> "none",
   divzero |-> FALSE, reads |-> {}]

\* InverseStart up to the first guess of salp1, calp1
StartGuess ==
  /\ res[1].at = "entry"
  /\ res' = <<[res[1] EXCEPT
                !.at = "guess",
                !.wr = {"salp1", "calp1"} \cup
                       (IF res[1].shortline THEN {"dnm"} ELSE {})]>>
  /\ UNCHANGED <<engVars, err, build, maxit2_, newtVars, inp, oracle, plan, g>>

\* InverseStart from the short-line test to its return
StartRefine ==
  /\ res[1].at = "guess"
  /\ LET s == res[1]
         called == ~ShortReturn(s.shortline, s.small) /\ ~s.skip
                   /\ ~StripNearCut(s.x, s.y)
         br == IF called THEN Astroid(s.x, s.y) ELSE "none"
     IN  res' = <<[s EXCEPT
                    !.at = "returned",
                    !.wr = s.wr \cup (IF ShortReturn(s.shortline, s.small)
                                      THEN {"salp2", "calp2"} ELSE {}),
                    !.ret = IF ShortReturn(s.shortline, s.small)
                            THEN "angle" ELSE "-1",
                    !.astroid = br,
                    !.divzero = br = "zero" /\ FLt(_f, R(0))]>>
  /\ UNCHANGED <<engVars, err, build, maxit2_, newtVars, inp, oracle, plan, g>>

\* GenInverse after the call: sig12 >= 0 is the short line, which reads
\* dnm, salp2 and calp2; otherwise Lambda12 assigns salp2 and calp2 first
StartUse ==
  /\ res[1].at = "returned"
  /\ res' = <<[res[1] EXCEPT
                !.at = IF res[1].ret = "angle" THEN "short" ELSE "newton",
                !.reads = IF res[1].ret = "angle"
                          THEN {"dnm", "salp2", "calp2"} ELSE {}]>>
  /\ UNCHANGED <<engVars, err, build, maxit2_, newtVars, inp, oracle, plan, g>>

StartXs ==
  {QNaN(1), FSub(R(-1), xthresh_), FMul(R(-2), xthresh_), R(-1),
   FNeg(RU(Unit \div 2)), R(0), R(1)}
StartYs ==
  {QNaN(1), FNeg(tol1_), FMul(R(-2), tol1_), FNeg(RU(tol1_.m \div 2)),
   R(0), Fin(-1, 0), tol1_}
StartFs == {R(0), tol0_, FNeg(tol0_)}

InitStart ==
  /\ nC4 = 24 /\ pc = "ready" /\ err = "none"
  /\ _a = R(1) /\ _f \in StartFs /\ _b = FSub(R(1), _f)
  /\ _cC4x = [i \in 0 .. nC4x(nC4) - 1 |-> <<0, 0>>]
  /\ ctr = NoCtr /\ oob = {} /\ c4f = [eps |-> R(0), mult |-> R(1)]
  /\ cW = {}
  /\ build \in {b \in Builds : b.prec = 1}
  /\ maxit2_ = maxit1_ + build.digits + 10
  /\ npc = "loop" /\ numit = 0 /\ tripn = FALSE /\ tripb = FALSE
  /\ evals = 0 /\ lam = NoLam /\ gen = 0
  /\ nanIn = FALSE
  /\ ord = CHOOSE o \in StartOrders : TRUE
  /\ inp = [lat1 |-> R(0), lon1 |-> R(0), lat2 |-> R(0), lon2 |-> R(0),
            outmask |-> {}]
  /\ oracle = [merid |-> TRUE, short |-> TRUE]
  /\ plan = <<>>
  /\ g = NoG
  /\ \E sl \in BOOLEAN, sm \in BOOLEAN, sk \in BOOLEAN,
        x \in StartXs, y \in StartYs :
       res = <<[NoStart EXCEPT !.shortline = sl, !.small = sm, !.skip = sk,
                               !.x = x, !.y = y]>>

NextStart == StartGuess \/ StartRefine \/ StartUse

SpecStart == InitStart /\ [][NextStart]_vars

\* C23: InverseStart returns -1 or an angle >= 0, the angle exactly on the
\* short-line return; salp2 and calp2 are assigned exactly when the angle
\* is returned and dnm exactly when the line is short, so on the -1 path
\* salp2 and calp2 are unchanged and dnm is unchanged unless the line was
\* short; GenInverse reads dnm, salp2 and calp2 of the call only when the
\* call assigned them
StartDone == res[1].at \in {"returned", "short", "newton"}
C23_StartFrame ==
  /\ StartDone =>
       /\ res[1].ret \in {"-1", "angle"}
       /\ res[1].ret = "angle" <=> (res[1].shortline /\ res[1].small)
       /\ {"salp1", "calp1"} \subseteq res[1].wr
       /\ "salp2" \in res[1].wr <=> res[1].ret = "angle"
       /\ "calp2" \in res[1].wr <=> res[1].ret = "angle"
       /\ "dnm" \in res[1].wr <=> res[1].shortline
  /\ res[1].reads \subseteq res[1].wr
  /\ res[1].at = "short" => res[1].reads = {"dnm", "salp2", "calp2"}

\* a short line too long for the short-line return: dnm is assigned and
\* -1 is returned, and the caller goes on to the Newton path
C23_Witness ==
  /\ res[1].at = "newton" /\ res[1].ret = "-1"
  /\ res[1].shortline /\ "dnm" \in res[1].wr
  /\ res[1].reads = {}

\* on the -1 path salp2, calp2 and dnm are all left unchanged
C23_MinusOneLeavesDnm ==
  (StartDone /\ res[1].ret = "-1") =>
    res[1].wr \cap {"salp2", "calp2", "dnm"} = {}

\* C28: InverseStart calls Astroid(x, y) only when y <= -tol1_ or
\* x <= -1 - xthresh_ or one of x, y is a NaN; Astroid then never takes its
\* k = 0 branch (y = 0 and |x| <= 1), and the prolate quotient
\* -y * (1 + k) / k never has k = 0
AstroidCalled == res[1].astroid # "none"
OutsideStrip ==
  \/ FLe(res[1].y, FNeg(tol1_))
  \/ FLe(res[1].x, FSub(R(-1), xthresh_))
C28_AstroidNeverZero ==
  AstroidCalled =>
    /\ OutsideStrip \/ IsNaN(res[1].x) \/ IsNaN(res[1].y)
    /\ ~(IsZero(res[1].y) /\ FLe(FAbs(res[1].x), R(1)))
    /\ res[1].astroid = "general"
    /\ ~res[1].divzero

\* a prolate ellipsoid, y = 0 and x beyond the strip: Astroid is called
\* and k is divided by
C28_Witness ==
  /\ res[1].at = "newton" /\ AstroidCalled
  /\ FLt(_f, R(0))
  /\ IsZero(res[1].y) /\ FLe(res[1].x, FSub(R(-1), xthresh_))

\* Astroid is called only when y <= -tol1_ or x <= -1 - xthresh_
C28_OnlyOutsideStrip == AstroidCalled => OutsideStrip

\* C24: for data without a NaN, sin(alpha1) > 0 at every evaluation of
\* Lambda12 in the loop and at both ends of the bracket: InverseStart
\* leaves sin(alpha1) > 0 or the fallback (1, 0), a Newton step is taken
\* only to a positive sine, and the midpoint of two ends with positive
\* sines has a positive sine
C24_SinePositive ==
  ~nanIn =>
    /\ res[1].sine = "pos"
    /\ res[1].a.sine = "pos" /\ res[1].b.sine = "pos"
    /\ lam.step = "newton" => lam.legal

\* both ends have been replaced by evaluated alpha1, and the last pass
\* took the midpoint
C24_Witness ==
  /\ ~nanIn /\ npc = "loop"
  /\ res[1].a.from = "eval" /\ res[1].b.from = "eval"
  /\ lam.step = "midpoint"
  /\ res[1].sine = "pos"

\* C25: when the loop is left by break (convergence or tripb), alpha1 is
\* the one the last call of Lambda12 was handed; when it is left because
\* numit has reached maxit2_, which happens in the fixed precisions only,
\* the last pass has replaced alpha1 after that call
ExitLaw ==
  IF lam.step = "break"
  THEN lam.at = gen
  ELSE /\ lam.at = gen - 1
       /\ lam.step \in {"newton", "midpoint"}
       /\ numit = maxit2_
       /\ build.prec <= 3
C25_ExitAlpha1 ==
  /\ npc = "left" => ExitLaw
  /\ npc = "thrown" => build.prec > 3 /\ numit = maxit2_

\* the loop has run out of iterations in a fixed precision
C25_Witness ==
  /\ npc = "left" /\ numit = maxit2_ /\ lam.step = "midpoint"
  /\ lam.at = gen - 1

\* on every exit alpha1 is the one last evaluated
C25_LastEvaluated == npc = "left" => lam.at = gen

\* the power of x that polyval(n, p, x) gives p[i]
PolyvalPower(n, i) == n - i

\* the sum over i < l of (nC4 - i)
RowOffset(l) == l * nC4 - (l * (l - 1)) \div 2

\* the slot C4coeff writes for the coefficient of eps^j of C4[l]
SlotOf(l, j) == RowOffset(l) + (nC4 - 1 - j)

\* C26: C4coeff writes the slots of _cC4x in order, each once, the
\* coefficient of eps^j of C4[l] at the offset of row l plus nC4 - 1 - j;
\* C4f reads row l from that offset, the slots it reads are the slots of
\* row l and no others, and slot i of the row is the coefficient polyval
\* multiplies by eps^(nC4 - l - 1 - i), eps^(nC4 - 1 - i) with mult = eps^l
Slots == 0 .. nC4x(nC4) - 1
Written(k) == _cC4x[k] # Unset
AsLaidOut(k) == k = SlotOf(_cC4x[k][1], _cC4x[k][2])
C26_TableLayout ==
  /\ pc = "C4coeff" =>
       \A k \in Slots :
         /\ Written(k) <=> k < ctr.k
         /\ Written(k) => AsLaidOut(k)
  /\ pc \in {"ready", "C4f"} =>
       \A k \in Slots : Written(k) /\ AsLaidOut(k)
  /\ (pc = "C4f" /\ ctr.l < nC4) =>
       LET m == C4fOrder(nC4, ctr.l)
       IN  /\ ctr.o = RowOffset(ctr.l)
           /\ PolyvalReads(m, ctr.o) = {k \in Slots : _cC4x[k][1] = ctr.l}
           /\ \A i \in 0 .. m :
                _cC4x[ctr.o + i] = <<ctr.l, ctr.l + PolyvalPower(m, i)>>

\* the last row of the order-24 table is about to be read
C26_Witness ==
  /\ pc = "C4f" /\ nC4 = 24 /\ ctr.l = 23 /\ ctr.o = 299
  /\ _cC4x[299] = <<23, 23>> /\ cW = 0 .. 22

\* S12 *= swapp * lonsign * latsign, without swapp
AreaFactorNoSwap(swapp, lonsign, latsign) == lonsign * latsign

\* S12 *= swapp * lonsign * latsign
AreaFactor(swapp, lonsign, latsign) == swapp * lonsign * latsign

\* the sign of S12 on a meridional path with slam12 = 0: salp0 = 0 leaves
\* S12 = _c2 * alp12 with alp12 = atan2(salp12, calp12), where salp12 = 0
\* and calp12 = clam12; calp12 = -1 (lon12 = 180) gives alp12 = -pi, and
\* calp12 = 1 gives 0, which S12 += 0 returns as +0
MeridionalAreaSign(r) ==
  IF FGt(r.lon12, R(90))
  THEN -AreaFactor(r.swapp, r.lonsign, r.latsign)
  ELSE 0

\* C27: the two orders of the endpoints come to the same canonical problem;
\* their factors swapp * lonsign * latsign are opposite, except that they
\* are equal when exactly one of these holds: lon1 and lon2 are the same,
\* lat2 = -lat1.  On an accepted meridional path with lon12 = 0 both calls
\* return S12 = +0; with lon12 = 180 and lat2 = -lat1 both return the same
\* S12, which is not zero
SameLon == inp.lon1 = inp.lon2
OppositeLatitudes ==
  /\ FEq(FAbs(AngRound(inp.lat1)), FAbs(AngRound(inp.lat2)))
  /\ SignBit(inp.lat1) # SignBit(inp.lat2)
OnFullMeridian(r) == r.path = "meridional" /\ SlamZero(r.lon12, r.lon12s)
FactorsOpposite ==
  AreaFactor(res[1].swapp, res[1].lonsign, res[1].latsign)
    = -AreaFactor(res[2].swapp, res[2].lonsign, res[2].latsign)
SameProblem ==
  /\ res[1].lat1 = res[2].lat1 /\ res[1].lat2 = res[2].lat2
  /\ res[1].lon12 = res[2].lon12 /\ res[1].lon12s = res[2].lon12s
  /\ res[1].path = res[2].path
FieldLon(x) ==
  IF FGe(x, R(180)) THEN FSub(x, R(360))
  ELSE IF FLt(x, R(-180)) THEN FAdd(x, R(360)) ELSE x

\* lam = lon * Math::degree<real>()
FieldLam(x) == FMul(x, Degree)

\* clam = abs(lam) == 90 ? 0 : cos(lam): which of the two is used
Clam(x) == IF FEq(FAbs(x), R(90)) THEN "0" ELSE "cos(lam)"

\* slam = lam == -180 ? 0 : sin(lam): which of the two is used
Slam(x) == IF FEq(x, R(-180)) THEN "0" ELSE "sin(lam)"

\* the outputs Field assigns
FieldWrites(diffp) ==
  {"Bx", "By", "Bz"} \cup (IF diffp THEN {"Bxt", "Byt", "Bzt"} ELSE {})

\* a call of Field(lon, diffp, ...)
FieldCall ==
  /\ inp.fn = "Field" /\ res = <<>>
  /\ LET x == FieldLon(inp.lon)
         y == FieldLam(x)
     IN  res' = <<[lon |-> x, lam |-> y,
                   clam |-> Clam(y), slam |-> Slam(y),
                   wr |-> FieldWrites(inp.diffp)]>>
  /\ UNCHANGED <<engVars, err, build, maxit2_, newtVars, inp, oracle, plan, g>>

\* the longitudes of [-540, 540) Field is called with
FieldLons ==
  {R(n) : n \in {0, 1, 46, 88, 90, 92, 176, 180, 184, 272, 360, 368, 528}}
    \cup {R(-n) : n \in {1, 46, 88, 90, 92, 176, 180, 184, 272, 360, 368,
                        528}}
    \cup {NegZero, RU(1), RU(Unit \div 2), FNeg(RU(Unit \div 2))}

InitField ==
  /\ nC4 = 24 /\ pc = "ready" /\ err = "none"
  /\ _a = R(1) /\ _f = R(0) /\ _b = R(1)
  /\ _cC4x = [i \in 0 .. nC4x(nC4) - 1 |-> <<0, 0>>]
  /\ ctr = NoCtr /\ oob = {} /\ c4f = [eps |-> R(0), mult |-> R(1)]
  /\ cW = {}
  /\ build \in {b \in Builds : b.prec \in {1, 2}}
  /\ maxit2_ = maxit1_ + build.digits + 10
  /\ NewtonIdle
  /\ inp \in [fn : {"Field"}, lon : FieldLons, diffp : BOOLEAN]
  /\ oracle = [merid |-> TRUE, short |-> TRUE]
  /\ plan = <<>>
  /\ g = NoG
  /\ res = <<>>

NextField == FieldCall

SpecField == InitField /\ [][NextField]_vars

\* C30: for every lon in [-540, 540) the longitude Field uses is the
\* equivalent angle of [-180, 180), 0 is used for its cosine exactly when
\* that angle is +90 or -90 and for its sine exactly when that angle is
\* -180; Bxt, Byt, Bzt are written iff diffp
FieldReduced(r) ==
  /\ (Ord(r.lon) - Ord(inp.lon)) % Turn = 0
  /\ FGe(r.lon, R(-180)) /\ FLt(r.lon, R(180))
C30_FieldLongitude ==
  res # <<>> =>
    /\ FieldReduced(res[1])
    /\ res[1].clam = "0" <=> FEq(FAbs(res[1].lon), R(90))
    /\ res[1].slam = "0" <=> FEq(res[1].lon, R(-180))
    /\ {"Bxt", "Byt", "Bzt"} \subseteq res[1].wr <=> inp.diffp
    /\ {"Bxt", "Byt", "Bzt"} \cap res[1].wr # {} <=> inp.diffp

\* ---------------------------------------------------------------------
\* The readarray of libraries/AP_Geoid, which returns a bool, run on the
\* stream and the array the readarray of GeographicLib was run on
\* ---------------------------------------------------------------------

\* sizeof(IntT) == sizeof(ExtT) && is_integer of both agree
GeoidCompatible ==
  /\ inp.IntT.size = inp.ExtT.size
  /\ inp.IntT.integer = inp.ExtT.integer

\* the compatible path: return false if the read fails, else swap and
\* return true
GeoidReadCompatible(r) ==
  LET got == ReadCount(r, inp.num)
      raw == [j \in DOMAIN r.array |->
                IF j < got THEN StreamValue(r.pos + j) ELSE r.array[j]]
  IN  IF ReadGood(r, inp.num)
      THEN [ret |-> TRUE,
            array |-> IF inp.bigendp # inp.bigendian
                      THEN [j \in DOMAIN raw |->
                              IF j < inp.num THEN swab(raw[j]) ELSE raw[j]]
                      ELSE raw]
      ELSE [ret |-> FALSE, array |-> raw]

\* while (k) of the buffered path, for k >= 0: return false at the first
\* read that fails, true when k is 0
RECURSIVE GeoidBuffered(_)
GeoidBuffered(r) ==
  IF r.k = 0 THEN [ret |-> TRUE, array |-> r.array]
  ELSE LET n == Min(r.k, bufsize)
       IN  IF ~ReadGood(r, n) THEN [ret |-> FALSE, array |-> r.array]
           ELSE GeoidBuffered(
                  [r EXCEPT
                     !.pos = @ + n, !.i = @ + n, !.k = @ - n,
                     !.array = [j \in DOMAIN r.array |->
                                  IF j \in r.i .. r.i + n - 1
                                  THEN Stored(StreamValue(r.pos + j - r.i))
                                  ELSE r.array[j]]])

\* bool readarray(std::istream& str, IntT array[], size_t num)
GeoidReadArray(r) ==
  IF GeoidCompatible THEN GeoidReadCompatible(r)
  ELSE GeoidBuffered([r EXCEPT !.k = ToInt(inp.num), !.i = 0])

\* bool readarray(std::istream& str, std::vector<IntT>& array)
GeoidReadVector(r) ==
  IF inp.num > 0 THEN GeoidReadArray(r)
  ELSE [ret |-> FALSE, array |-> r.array]

\* the stream and the array as they were handed to the first readarray
Fresh ==
  [st |-> "called", k |-> 0, i |-> 0, pos |-> 0, good |-> inp.good,
   reads |-> <<>>, wr |-> {}, array |-> [j \in 0 .. inp.num |-> NoValue]]

\* the AP_Geoid readarray is called once the other has returned or thrown
GeoidCall ==
  /\ Len(res) = 1 /\ res[1].st \in {"returned", "threw"}
  /\ res' = Append(res, IF inp.vector THEN GeoidReadVector(Fresh)
                        ELSE GeoidReadArray(Fresh))
  /\ UNCHANGED <<engVars, err, build, maxit2_, newtVars, inp, oracle, plan, g>>

\* the sizes the two are compared on: those an int holds
GeoidNums == 0 .. 2 * bufsize + 1

InitGeoid ==
  /\ EngineReady(R(0))
  /\ build \in {b \in Builds : b.prec = 2}
  /\ maxit2_ = maxit1_ + build.digits + 10
  /\ NewtonIdle
  /\ \E num \in GeoidNums :
       inp \in [fn : {"readarray"}, vector : BOOLEAN,
                ExtT : {Char, Short}, IntT : {Char, Short},
                bigendp : BOOLEAN, bigendian : BOOLEAN, host : BOOLEAN,
                num : {num}, len : ReadArrayLens(num), seed : {1, 250},
                good : BOOLEAN]
  /\ oracle = [merid |-> TRUE, short |-> TRUE]
  /\ plan = <<>>
  /\ g = NoG
  /\ res = <<Fresh>>

NextGeoid ==
  \/ CallReadVector
  \/ ReadCompatible
  \/ BufferedBegin
  \/ BufferedChunk
  \/ BufferedEnd
  \/ GeoidCall

SpecGeoid == InitGeoid /\ [][NextGeoid]_vars

\* C29: on every input the AP_Geoid readarray returns false exactly when
\* the GeographicLib readarray throws and true exactly when it returns,
\* for the pointer and the vector overload, the empty vector included, and
\* the two leave the same array
BothRan == Len(res) = 2
C29_GeoidEquivalent ==
  BothRan =>
    /\ res[2].ret = FALSE <=> res[1].st = "threw"
    /\ res[2].ret = TRUE <=> res[1].st = "returned"
    /\ res[2].array = res[1].array

====
